---- MODULE Spec2Model ----
(***************************************************************************)
(* Model of upy_serial_cli (src/upy_serial_cli/upy_serial_cli.py): the     *)
(* host side of a request/response protocol with a MicroPython REPL over a *)
(* serial line.                                                            *)
(*                                                                         *)
(* Text is a sequence of Unicode code points, transmitted data a sequence  *)
(* of bytes (0..255).  The specifications share the variables:             *)
(*   SpecExtract  extract_results applied to bounded device outputs        *)
(*   SpecWrite    the loop of serial_write, one transport write per step   *)
(*   SpecRead     the loop of serial_read, one transport read per step     *)
(*   Spec         the client: constructor, command handlers, destructor    *)
(*   SpecArgv, SpecEcho, SpecEscape  the formatting of statements          *)
(*   SpecDevice   the functions of cli_module.py called at the REPL        *)
(***************************************************************************)
EXTENDS Integers, Sequences, FiniteSets, TLC

VARIABLES
    \* extract_results
    res_str,        \* the argument: decoded device output
    ex_pc,          \* "call", "returned" or "exited"
    ex_kept,        \* the local `results` after line 559 (<<>> if not reached)
    results,        \* the returned payload (<<>> if nothing is returned)
    ex_err          \* message handed to error(), "none" if no error

exVars == <<res_str, ex_pc, ex_kept, results, ex_err>>

VARIABLES
    \* serial_write
    buf,            \* the argument: the text to transmit
    wr_pc,          \* "loop" or "returned"
    written_bytes,  \* the local of that name
    offset,         \* the local of that name
    wr_end,         \* the local `end`
    sent            \* the chunks handed to the transport so far, in order

wrVars == <<buf, wr_pc, written_bytes, offset, wr_end, sent>>

VARIABLES
    \* serial_read
    rd_pc,          \* "loop", "returned" or "raised"
    read_bytes,     \* the local of that name
    rd_result,      \* the local `result`: the bytes accumulated so far
    rd_text,        \* the returned text (<<>> if nothing is returned)
    incoming,       \* the bytes the device sends and the host has not read yet
    reads           \* the transport reads so far: requested size and response

rdVars == <<rd_pc, read_bytes, rd_result, rd_text, incoming, reads>>

VARIABLES
    \* the client and the main program
    pc,             \* "main", "ready", "exited" or "finalized"
    obj,            \* an upy_serial_cli object has been created
    ser_conn,       \* self.ser_conn: "unset", or the port "open" or "closed"
    interactive,    \* option -i
    args,           \* the command line left after the options of main
    exit_code,      \* the exit code of the process, -1 while it runs
    cmd,            \* the handler that ran last
    argv,           \* its arguments
    ops,            \* the transport operations of the handler that ran last
    printed,        \* what it printed to stdout
    exc             \* how it ended: the exception that left it

cliVars == <<pc, obj, ser_conn, interactive, args, exit_code, cmd, argv, ops,
             printed, exc>>

VARIABLES
    \* argv_to_str and the substitutions of serial_fwrite on their own
    fn_pc,          \* "idle", "call" before and "return" after the call
    fn_arg,         \* the argument: argv or a line of the source file
    fn_result       \* the text returned

fnVars == <<fn_pc, fn_arg, fn_result>>

VARIABLES
    \* the device: the REPL with the functions of cli_module.py
    dev_pc,         \* "booted", "called" or "removed"
    instance,       \* the functor's `instance` is not None
    constructed,    \* the sysinfo objects constructed since boot
    dev_call,       \* the last call: function, arguments, keyword arguments
    dev_out,        \* what that call printed
    dev_exc         \* the exception that left it, "none" if it returned

devVars == <<dev_pc, instance, constructed, dev_call, dev_out, dev_exc>>

vars == <<exVars, wrVars, rdVars, cliVars, fnVars, devVars>>


----------------------------------------------------------------------------
(* Program constants *)

EXIT_SUCCESS == 0
EXIT_FAILURE == 255

\* "##### BEGIN RESULTS #####"
BEG_RES == <<35, 35, 35, 35, 35, 32, 66, 69, 71, 73, 78, 32,
             82, 69, 83, 85, 76, 84, 83, 32, 35, 35, 35, 35, 35>>

\* "##### END RESULTS #####"
END_RES == <<35, 35, 35, 35, 35, 32, 69, 78, 68, 32,
             82, 69, 83, 85, 76, 84, 83, 32, 35, 35, 35, 35, 35>>

DEFAULT_SER_WRBUF_SIZE == 256
DEFAULT_SER_RDBUF_SIZE == 1000

\* "\r\n" and "\n"
CRLF == <<13, 10>>
NL == <<10>>

----------------------------------------------------------------------------
(* Python str operations *)

\* sep occurs in s at index i
MatchAt(s, sep, i) ==
    /\ i >= 1
    /\ i + Len(sep) - 1 <= Len(s)
    /\ \A k \in 1..Len(sep) : s[i + k - 1] = sep[k]

\* str.find from index i (1-based); 0 when sep does not occur
find(s, sep, i) ==
    LET I == {j \in i..(Len(s) - Len(sep) + 1) : MatchAt(s, sep, j)}
    IN  IF I = {} THEN 0 ELSE CHOOSE j \in I : \A k \in I : j <= k

\* str.split(sep): left-to-right, non-overlapping occurrences
RECURSIVE split(_, _)
split(s, sep) ==
    LET i == find(s, sep, 1)
    IN  IF i = 0
        THEN <<s>>
        ELSE <<SubSeq(s, 1, i - 1)>>
                 \o split(SubSeq(s, i + Len(sep), Len(s)), sep)

\* sep.join(parts)
RECURSIVE join(_, _)
join(sep, parts) ==
    IF Len(parts) = 0 THEN <<>>
    ELSE IF Len(parts) = 1 THEN parts[1]
    ELSE parts[1] \o sep \o join(sep, Tail(parts))

----------------------------------------------------------------------------
(* extract_results, lines 546-567 *)

\* lines 554-555: every CRLF becomes LF
normalize_mut(s) == s
normalize(s) == join(NL, split(s, CRLF))

\* line 559: the parts after the first BEG_RES, glued together
after_begin_mut(parts) == join(BEG_RES, Tail(parts))
after_begin(parts) == join(<<>>, Tail(parts))

\* line 563: the parts before the last END_RES, glued together
before_end_mut(parts) == join(END_RES, SubSeq(parts, 1, Len(parts) - 1))
before_end(parts) == join(<<>>, SubSeq(parts, 1, Len(parts) - 1))

\* The outcome of extract_results(s): the ValueError message that reaches
\* error() (which ends the process, so nothing is returned), the value of
\* `results` after line 559 and the returned payload.
extract_results(s) ==
    LET byBegin == split(normalize(s), BEG_RES)
        kept    == after_begin(byBegin)
        byEnd   == split(kept, END_RES)
    IN  IF Len(byBegin) = 1
        THEN [err |-> "No results found", kept |-> <<>>, results |-> <<>>]
        ELSE IF Len(byEnd) = 1
        THEN [err |-> "Result incomplete", kept |-> kept, results |-> <<>>]
        ELSE [err |-> "none", kept |-> kept, results |-> before_end(byEnd)]

----------------------------------------------------------------------------
(* UTF-8: str.encode("utf-8") and bytes.decode("utf-8") *)

\* the encoding of one code point
utf8(c) ==
    IF c < 128 THEN <<c>>
    ELSE IF c < 2048 THEN <<192 + (c \div 64), 128 + (c % 64)>>
    ELSE IF c < 65536
    THEN <<224 + (c \div 4096), 128 + ((c \div 64) % 64), 128 + (c % 64)>>
    ELSE <<240 + (c \div 262144), 128 + ((c \div 4096) % 64),
           128 + ((c \div 64) % 64), 128 + (c % 64)>>

\* the concatenation of a sequence of sequences, in order
RECURSIVE concat(_)
concat(ss) ==
    IF Len(ss) = 0 THEN <<>>
    ELSE IF Len(ss) = 1 THEN ss[1]
    ELSE LET h == Len(ss) \div 2
         IN  concat(SubSeq(ss, 1, h)) \o concat(SubSeq(ss, h + 1, Len(ss)))

encode(s) == concat([i \in 1..Len(s) |-> utf8(s[i])])

IsCont(b) == b \in 128..191

\* the length of the sequence a lead byte announces, 0 for a byte that
\* cannot start one
Width(b) ==
    IF b < 128 THEN 1
    ELSE IF b \in 194..223 THEN 2
    ELSE IF b \in 224..239 THEN 3
    ELSE IF b \in 240..244 THEN 4
    ELSE 0

\* a complete well-formed sequence starts at index i
WellFormedAt(bs, i) ==
    LET w == Width(bs[i])
    IN  /\ w > 0
        /\ i + w - 1 <= Len(bs)
        /\ \A k \in 1..(w - 1) : IsCont(bs[i + k])
        /\ bs[i] = 224 => bs[i + 1] >= 160
        /\ bs[i] = 237 => bs[i + 1] <= 159
        /\ bs[i] = 240 => bs[i + 1] >= 144
        /\ bs[i] = 244 => bs[i + 1] <= 143

\* the strict decoder accepts bs
ValidUtf8(bs) ==
    \A i \in 1..Len(bs) :
        IF IsCont(bs[i])
        THEN \E j \in 1..3 :
                /\ i - j >= 1
                /\ \A k \in 1..(j - 1) : IsCont(bs[i - k])
                /\ ~IsCont(bs[i - j])
                /\ Width(bs[i - j]) > j
        ELSE WellFormedAt(bs, i)

CodePointAt(bs, i) ==
    LET w == Width(bs[i])
    IN  IF w = 1 THEN bs[i]
        ELSE IF w = 2 THEN (bs[i] - 192) * 64 + (bs[i + 1] - 128)
        ELSE IF w = 3
        THEN (bs[i] - 224) * 4096 + (bs[i + 1] - 128) * 64 + (bs[i + 2] - 128)
        ELSE (bs[i] - 240) * 262144 + (bs[i + 1] - 128) * 4096
                 + (bs[i + 2] - 128) * 64 + (bs[i + 3] - 128)

\* the text of a valid byte sequence
decode(bs) ==
    LET leads == SelectSeq([i \in 1..Len(bs) |-> i],
                           LAMBDA i : ~IsCont(bs[i]))
    IN  [k \in 1..Len(leads) |-> CodePointAt(bs, leads[k])]

\* s[a:b] for 0 <= a, 0 <= b
slice(s, a, b) ==
    IF a >= Len(s) THEN <<>>
    ELSE SubSeq(s, a + 1, IF b < Len(s) THEN b ELSE Len(s))

----------------------------------------------------------------------------
(* serial_write, lines 879-900, and serial_read, lines 860-877 *)

\* Serial.write(data) without a write timeout blocks until the whole of
\* data is out and returns its length
ser_write(data) == Len(data)

\* lines 890-893: the condition of the write loop
write_more(n) == n = DEFAULT_SER_WRBUF_SIZE

\* line 895: the bytes of the next chunk
chunk(b, off, e) == encode(slice(b, off, e))

\* lines 867-870: the condition of the read loop
read_more_mut(n) == n > 0
read_more(n) == n = DEFAULT_SER_RDBUF_SIZE

\* line 875: the accumulation of a response
accumulate(acc, data) == acc \o data

----------------------------------------------------------------------------
(* SpecExtract: device outputs built from at most MaxSegs segments *)

MaxSegs == 5

\* "x\r\n", a line of noise or payload
XLine == <<120, 13, 10>>
\* "##### END" and " RESULTS #####": the two halves of END_RES
EndHead == <<35, 35, 35, 35, 35, 32, 69, 78, 68>>
EndTail == <<32, 82, 69, 83, 85, 76, 84, 83, 32, 35, 35, 35, 35, 35>>

\* " END RESULTS #####": after END_RES it makes a second, overlapping END_RES
EndOver == <<32, 69, 78, 68, 32, 82, 69, 83, 85, 76, 84, 83, 32, 35, 35, 35, 35, 35>>

Segments == {BEG_RES, END_RES, XLine, <<13>>, EndHead, EndTail, EndOver}

RECURSIVE Outputs(_)
Outputs(n) ==
    IF n = 0 THEN {<<>>}
    ELSE LET prev == Outputs(n - 1)
         IN  prev \cup {o \o g : o \in {p \in prev : Len(p) > 0 \/ n = 1},
                                 g \in Segments}

\* the attribute errno of an exception: absent, None or a number
Absent == [has |-> FALSE, none |-> FALSE, val |-> 0]
ErrnoNone == [has |-> TRUE, none |-> TRUE, val |-> 0]
Errno(n) == [has |-> TRUE, none |-> FALSE, val |-> n]

Exc(t, e) == [type |-> t, errno |-> e, code |-> 0]
NoExc == Exc("none", Absent)
SystemExit(c) == [type |-> "SystemExit", errno |-> Absent, code |-> c]

\* the variables of a part of the program that a specification leaves out
ExtractIdle ==
    /\ res_str = <<>>
    /\ ex_pc = "idle"
    /\ ex_kept = <<>>
    /\ results = <<>>
    /\ ex_err = "none"

WriteIdle ==
    /\ buf = <<>>
    /\ wr_pc = "idle"
    /\ written_bytes = 0
    /\ offset = 0
    /\ wr_end = 0
    /\ sent = <<>>

ReadIdle ==
    /\ rd_pc = "idle"
    /\ read_bytes = 0
    /\ rd_result = <<>>
    /\ rd_text = <<>>
    /\ incoming = <<>>
    /\ reads = <<>>

FnIdle ==
    /\ fn_pc = "idle"
    /\ fn_arg = <<>>
    /\ fn_result = <<>>

DevIdle ==
    /\ dev_pc = "idle"
    /\ instance = FALSE
    /\ constructed = 0
    /\ dev_call = [fn |-> "none", args |-> <<>>, query |-> <<>>,
                   list_format |-> FALSE]
    /\ dev_out = <<>>
    /\ dev_exc = "none"

ClientIdle ==
    /\ pc = "idle"
    /\ obj = FALSE
    /\ ser_conn = "unset"
    /\ interactive = FALSE
    /\ args = <<>>
    /\ exit_code = -1
    /\ cmd = "none"
    /\ argv = <<>>
    /\ ops = <<>>
    /\ printed = <<>>
    /\ exc = NoExc

InitExtract ==
    /\ res_str \in Outputs(MaxSegs)
    /\ ex_pc = "call"
    /\ ex_kept = <<>>
    /\ results = <<>>
    /\ ex_err = "none"
    /\ WriteIdle
    /\ ReadIdle
    /\ ClientIdle
    /\ FnIdle
    /\ DevIdle

ExtractResults ==
    /\ ex_pc = "call"
    /\ LET r == extract_results(res_str)
       IN  /\ ex_err' = r.err
           /\ ex_kept' = r.kept
           /\ results' = r.results
           /\ ex_pc' = IF r.err = "none" THEN "returned" ELSE "exited"
    /\ UNCHANGED <<res_str, wrVars, rdVars, cliVars, fnVars, devVars>>

NextExtract == ExtractResults

SpecExtract == InitExtract /\ [][NextExtract]_vars

----------------------------------------------------------------------------
(* SpecWrite: serial_write on bounded buffers, one loop iteration a step *)

MaxChunks == 2

\* a text of n characters, the one at index p being c
Text(n, p, c) == [i \in 1..n |-> IF i = p THEN c ELSE 97 + (i % 26)]

\* lengths around the multiples of the chunk size
WriteLens ==
    {0, 1} \cup {k * DEFAULT_SER_WRBUF_SIZE + d : k \in 1..MaxChunks,
                                                   d \in {-1, 0, 1}}

\* "x", "e" with acute accent (2 bytes), the euro sign (3), an emoji (4)
WriteChars == {120, 233, 8364, 128512}

WritePos == {1, DEFAULT_SER_WRBUF_SIZE, DEFAULT_SER_WRBUF_SIZE + 1}

InitWrite ==
    /\ buf \in {Text(n, p, c) : n \in WriteLens, p \in WritePos,
                                c \in WriteChars}
    /\ wr_pc = "loop"
    /\ written_bytes = DEFAULT_SER_WRBUF_SIZE
    /\ offset = 0
    /\ wr_end = DEFAULT_SER_WRBUF_SIZE
    /\ sent = <<>>
    /\ ExtractIdle
    /\ ReadIdle
    /\ ClientIdle
    /\ FnIdle
    /\ DevIdle

\* one iteration of the loop, lines 894-900
WriteChunk ==
    /\ wr_pc = "loop"
    /\ write_more(written_bytes)
    /\ LET data == chunk(buf, offset, wr_end)
           n    == ser_write(data)
       IN  /\ sent' = Append(sent, data)
           /\ written_bytes' = n
           /\ offset' = offset + n
           /\ wr_end' = offset + n + DEFAULT_SER_WRBUF_SIZE
           /\ wr_pc' = IF write_more(n) THEN "loop" ELSE "returned"
    /\ UNCHANGED <<buf, exVars, rdVars, cliVars, fnVars, devVars>>

NextWrite == WriteChunk

SpecWrite == InitWrite /\ [][NextWrite]_vars

----------------------------------------------------------------------------
(* SpecRead: serial_read on bounded device streams, one loop iteration a   *)
(* step; the last iteration includes the decoding of line 877              *)

MaxReads == 2

\* n bytes of ASCII with the bytes of special written over them from index p
Stream(n, p, special) ==
    [i \in 1..n |-> IF i >= p /\ i < p + Len(special)
                    THEN special[i - p + 1]
                    ELSE 97 + (i % 26)]

StreamLens ==
    {0, 1} \cup {k * DEFAULT_SER_RDBUF_SIZE + d : k \in 1..MaxReads,
                                                   d \in {-1, 0, 1}}

\* "x"; a byte no sequence contains; "e" with acute accent; a lead byte
\* without its continuation; the euro sign
Specials == {<<120>>, <<255>>, <<195, 169>>, <<195>>, <<226, 130, 172>>}

StreamPos == {1, DEFAULT_SER_RDBUF_SIZE, DEFAULT_SER_RDBUF_SIZE + 1}

\* Serial.read(size) returns when size bytes have arrived or the timeout has
\* passed: any number of the bytes still to come, up to size
ReadSizes(avail) ==
    {k \in {0, 1, DEFAULT_SER_RDBUF_SIZE - 1, DEFAULT_SER_RDBUF_SIZE, avail} :
        k <= avail /\ k <= DEFAULT_SER_RDBUF_SIZE}

InitRead ==
    /\ incoming \in {Stream(n, p, sp) : n \in StreamLens, p \in StreamPos,
                                        sp \in Specials}
    /\ rd_pc = "loop"
    /\ read_bytes = DEFAULT_SER_RDBUF_SIZE
    /\ rd_result = <<>>
    /\ rd_text = <<>>
    /\ reads = <<>>
    /\ ExtractIdle
    /\ WriteIdle
    /\ ClientIdle
    /\ FnIdle
    /\ DevIdle

\* one iteration of the loop, lines 871-876, and after the last one line 877
ReadChunk ==
    /\ rd_pc = "loop"
    /\ read_more(read_bytes)
    /\ \E k \in ReadSizes(Len(incoming)) :
          LET data == SubSeq(incoming, 1, k)
              acc  == accumulate(rd_result, data)
          IN  /\ reads' = Append(reads, [size |-> DEFAULT_SER_RDBUF_SIZE,
                                         data |-> data])
              /\ incoming' = SubSeq(incoming, k + 1, Len(incoming))
              /\ read_bytes' = k
              /\ rd_result' = acc
              /\ IF read_more(k)
                 THEN rd_pc' = "loop" /\ rd_text' = <<>>
                 ELSE IF ValidUtf8(acc)
                 THEN rd_pc' = "returned" /\ rd_text' = decode(acc)
                 ELSE rd_pc' = "raised" /\ rd_text' = <<>>
    /\ UNCHANGED <<exVars, wrVars, cliVars, fnVars, devVars>>

NextRead == ReadChunk

SpecRead == InitRead /\ [][NextRead]_vars

----------------------------------------------------------------------------
(* The client: class upy_serial_cli and the main program *)

(* Text literals of the program *)

\* cli_module.py
CLI_MOD ==
    <<99, 108, 105, 95, 109, 111, 100, 117, 108, 101, 46, 112, 121>>

\* /w
DEFAULT_PATH == <<47, 119>>

\* try: sb = uos.stat(\"cli_module.py\")\r\nexcept Exception as err: print(\"### {} ###\".format(err))\r\n\r\n
PROBE ==
    <<116, 114, 121, 58, 32, 115, 98, 32, 61, 32, 117, 111, 115, 46,
      115, 116, 97, 116, 40, 34, 99, 108, 105, 95, 109, 111, 100, 117,
      108, 101, 46, 112, 121, 34, 41, 13, 10, 101, 120, 99, 101, 112,
      116, 32, 69, 120, 99, 101, 112, 116, 105, 111, 110, 32, 97, 115,
      32, 101, 114, 114, 58, 32, 112, 114, 105, 110, 116, 40, 34, 35,
      35, 35, 32, 123, 125, 32, 35, 35, 35, 34, 46, 102, 111, 114, 109,
      97, 116, 40, 101, 114, 114, 41, 41, 13, 10, 13, 10>>

\* ### [Errno 2] ENOENT ###
ENOENT_LINE ==
    <<35, 35, 35, 32, 91, 69, 114, 114, 110, 111, 32, 50, 93, 32, 69,
      78, 79, 69, 78, 84, 32, 35, 35, 35>>

\* import machine\r\nmachine.reset()\r\n
RESET ==
    <<105, 109, 112, 111, 114, 116, 32, 109, 97, 99, 104, 105, 110, 101,
      13, 10, 109, 97, 99, 104, 105, 110, 101, 46, 114, 101, 115, 101,
      116, 40, 41, 13, 10>>

\* cat(
S_cat == <<99, 97, 116, 40>>

\* )\r\n
S_close == <<41, 13, 10>>

\* is_dir(\"
S_is_dir == <<105, 115, 95, 100, 105, 114, 40, 34>>

\* \")\r\n
S_qclose == <<34, 41, 13, 10>>

\* du(
S_du == <<100, 117, 40>>

\* , max_depth=
S_max_depth == <<44, 32, 109, 97, 120, 95, 100, 101, 112, 116, 104, 61>>

\* , human_readable=
S_human_readable ==
    <<44, 32, 104, 117, 109, 97, 110, 95, 114, 101, 97, 100, 97, 98,
      108, 101, 61>>

\* ls(
S_ls == <<108, 115, 40>>

\* , list_format=
S_list_format ==
    <<44, 32, 108, 105, 115, 116, 95, 102, 111, 114, 109, 97, 116, 61>>

\* , rec=
S_rec == <<44, 32, 114, 101, 99, 61>>

\* restore()\r\n
S_restore == <<114, 101, 115, 116, 111, 114, 101, 40, 41, 13, 10>>

\* sysinfo(query=\"
S_sysinfo ==
    <<115, 121, 115, 105, 110, 102, 111, 40, 113, 117, 101, 114, 121,
      61, 34>>

\* fd = open(\"
S_open == <<102, 100, 32, 61, 32, 111, 112, 101, 110, 40, 34>>

\* \", \"w\")\r\n
S_open_w == <<34, 44, 32, 34, 119, 34, 41, 13, 10>>

\* fd.write('
S_write == <<102, 100, 46, 119, 114, 105, 116, 101, 40, 39>>

\* '.encode(\"utf-8\"))\r\n
S_encode ==
    <<39, 46, 101, 110, 99, 111, 100, 101, 40, 34, 117, 116, 102, 45,
      56, 34, 41, 41, 13, 10>>

\* fd.close() without its line terminator
S_fclose_mut == <<102, 100, 46, 99, 108, 111, 115, 101, 40, 41>>

\* fd.close()\r\n
S_fclose == <<102, 100, 46, 99, 108, 111, 115, 101, 40, 41, 13, 10>>

\* True
S_True == <<84, 114, 117, 101>>

\* False
S_False == <<70, 97, 108, 115, 101>>

\* TRUE
S_TRUE == <<84, 82, 85, 69>>

\* FALSE
S_FALSE == <<70, 65, 76, 83, 69>>

\* all
S_all == <<97, 108, 108>>

\* free
S_free == <<102, 114, 101, 101>>

\* .
S_dot == <<46>>

\* local
S_local == <<108, 111, 99, 97, 108>>

\* serial
S_serial == <<115, 101, 114, 105, 97, 108>>

\* -h
O_h == <<45, 104>>

\* -q
O_q == <<45, 113>>

\* -s
O_s == <<45, 115>>

\* -d
O_d == <<45, 100>>

\* -r
O_r == <<45, 114>>

\* -f
O_f == <<45, 102>>

\* -l
O_l == <<45, 108>>

\* -b
O_b == <<45, 98>>

\* -p
O_p == <<45, 112>>

\* -i
O_i == <<45, 105>>

----------------------------------------------------------------------------
(* Exceptions and the run of one handler.  A handler is an operator on a   *)
(* record m: the state of the port, the transport operations so far, what  *)
(* was printed, the value last returned and the pending exception.  Every  *)
(* step is skipped while an exception is pending.                          *)

\* fault.at = k makes the k-th transport operation of the handler fail,
\* fault.at = 0 none; fault.errno is the OS error of a failing open
Machine(port, fault) ==
    [port |-> port, ops |-> <<>>, out |-> <<>>, ret |-> <<>>,
     exc |-> NoExc, n |-> 0, fault |-> fault]

Ok(m) == m.exc.type = "none"
Raise(m, e) == [m EXCEPT !.exc = e]
Caught(m) == [m EXCEPT !.exc = NoExc]
Event(op, text, chunks, ok) ==
    [op |-> op, text |-> text, chunks |-> chunks, ok |-> ok]
Log(m, ev) == [m EXCEPT !.ops = Append(@, ev), !.n = @ + 1]

\* UnicodeDecodeError is a ValueError
IsValueError(e) == e.type \in {"ValueError", "UnicodeDecodeError"}
\* everything but SystemExit is an Exception
IsException(e) == e.type \notin {"none", "SystemExit"}

\* error(err), lines 24-37: sys.exit(err.errno) if err has the attribute,
\* and sys.exit(None) is exit code 0
error(m, e) ==
    Raise(m, SystemExit(IF ~e.errno.has THEN EXIT_FAILURE
                        ELSE IF e.errno.none THEN 0
                        ELSE e.errno.val))

\* usage(is_err), lines 40-68
usage(m, is_err) ==
    Raise(m, SystemExit(IF is_err THEN EXIT_FAILURE ELSE EXIT_SUCCESS))

\* print(text)
print(m, text) == IF Ok(m) THEN [m EXCEPT !.out = Append(@, text)] ELSE m

\* print(results) for the results left in m.ret
print_results(m) == print(m, m.ret)

----------------------------------------------------------------------------
(* The transport: pyserial's Serial *)

Faulty(m, k) == m.fault.at \in (m.n + 1)..(m.n + k)

\* Serial(port=..., baudrate=..., timeout=...), lines 172-176: creates the
\* object and opens the port; on failure self.ser_conn stays unset
Serial(m) ==
    IF ~Ok(m) THEN m
    ELSE IF Faulty(m, 1)
    THEN Raise(Log(m, Event("open", <<>>, <<>>, FALSE)),
               Exc("SerialException", Errno(m.fault.errno)))
    ELSE [Log(m, Event("open", <<>>, <<>>, TRUE)) EXCEPT !.port = "open"]

\* an open that takes a missing attribute for a closed port
ser_open_mut(m) ==
    IF ~Ok(m) THEN m
    ELSE IF m.port = "open"
    THEN Raise(Log(m, Event("reopen", <<>>, <<>>, FALSE)),
               Exc("SerialException", ErrnoNone))
    ELSE [Log(m, Event("open", <<>>, <<>>, TRUE)) EXCEPT !.port = "open"]

\* self.ser_conn.open(): fails on an open port ("Port is already open."),
\* which the operations record as a reopen, and on a missing attribute
ser_open(m) ==
    IF ~Ok(m) THEN m
    ELSE IF m.port = "unset" THEN Raise(m, Exc("AttributeError", Absent))
    ELSE IF m.port = "open"
    THEN Raise(Log(m, Event("reopen", <<>>, <<>>, FALSE)),
               Exc("SerialException", ErrnoNone))
    ELSE IF Faulty(m, 1)
    THEN Raise(Log(m, Event("open", <<>>, <<>>, FALSE)),
               Exc("SerialException", Errno(m.fault.errno)))
    ELSE [Log(m, Event("open", <<>>, <<>>, TRUE)) EXCEPT !.port = "open"]

\* self.ser_conn.close(), also the one of a finally clause
close_port(m) ==
    [m EXCEPT !.port = "closed",
              !.ops = Append(@, Event("close", <<>>, <<>>, TRUE))]

ser_close(m) == IF Ok(m) THEN close_port(m) ELSE m

\* the chunks the loop of serial_write hands to the transport
RECURSIVE write_loop(_, _, _, _)
write_loop(b, off, e, wb) ==
    IF ~write_more(wb) THEN <<>>
    ELSE LET data == chunk(b, off, e)
             n    == ser_write(data)
         IN  <<data>> \o write_loop(b, off + n,
                                    off + n + DEFAULT_SER_WRBUF_SIZE, n)

serial_write_chunks(b) ==
    write_loop(b, 0, DEFAULT_SER_WRBUF_SIZE, DEFAULT_SER_WRBUF_SIZE)

\* serial_write(text), lines 879-900; a failing transport write raises
\* SerialException without errno, as does a write on a closed port
serial_write(m, text) ==
    IF ~Ok(m) THEN m
    ELSE LET cs == serial_write_chunks(text)
             k  == IF Faulty(m, Len(cs)) THEN m.fault.at - m.n ELSE 0
         IN  IF m.port # "open"
             THEN Raise([m EXCEPT !.ops = Append(@,
                             Event("write", text, <<>>, FALSE))],
                        Exc("SerialException", ErrnoNone))
             ELSE IF k = 0
             THEN [m EXCEPT !.n = @ + Len(cs),
                            !.ops = Append(@, Event("write", text, cs, TRUE))]
             ELSE Raise([m EXCEPT !.n = @ + k,
                                  !.ops = Append(@, Event("write", text,
                                              SubSeq(cs, 1, k - 1), FALSE))],
                        Exc("SerialException", ErrnoNone))

\* the responses of the loop of serial_read when reply is what arrives
\* before the first read that times out
RECURSIVE read_loop(_, _)
read_loop(reply, rb) ==
    IF ~read_more(rb) THEN <<>>
    ELSE LET k == IF Len(reply) < DEFAULT_SER_RDBUF_SIZE
                  THEN Len(reply) ELSE DEFAULT_SER_RDBUF_SIZE
         IN  <<SubSeq(reply, 1, k)>>
                 \o read_loop(SubSeq(reply, k + 1, Len(reply)), k)

serial_read_responses(reply) == read_loop(reply, DEFAULT_SER_RDBUF_SIZE)

\* a decoding that gives up without raising
result_decode_mut(m, acc) ==
    IF ValidUtf8(acc) THEN [m EXCEPT !.ret = decode(acc)] ELSE m

\* result.decode("utf-8"), line 877
result_decode(m, acc) ==
    IF ValidUtf8(acc) THEN [m EXCEPT !.ret = decode(acc)]
    ELSE Raise(m, Exc("UnicodeDecodeError", Absent))

\* serial_read(), lines 860-877: the text is left in m.ret
serial_read(m, reply) ==
    IF ~Ok(m) THEN m
    ELSE LET rs  == serial_read_responses(reply)
             k   == IF Faulty(m, Len(rs)) THEN m.fault.at - m.n ELSE 0
             acc == concat(rs)
         IN  IF m.port # "open"
             THEN Raise([m EXCEPT !.ops = Append(@,
                             Event("read", <<>>, <<>>, FALSE))],
                        Exc("SerialException", ErrnoNone))
             ELSE IF k # 0
             THEN Raise([m EXCEPT !.n = @ + k,
                                  !.ops = Append(@, Event("read", <<>>,
                                              SubSeq(rs, 1, k - 1), FALSE))],
                        Exc("SerialException", ErrnoNone))
             ELSE LET m1 == [m EXCEPT !.n = @ + Len(rs),
                                      !.ops = Append(@,
                                          Event("read", <<>>, rs, TRUE))]
                  IN  result_decode(m1, acc)

\* extract_results(m.ret) with the results left in m.ret; a missing marker
\* ends in error(ValueError), lines 564-565
\* results that keep what follows the BEGIN marker, the END marker too
extracted_mut(m, r) == [m EXCEPT !.ret = r.kept]

extracted(m, r) ==
    IF r.err = "none" THEN [m EXCEPT !.ret = r.results]
    ELSE error(m, Exc("ValueError", Absent))

extract(m) == IF ~Ok(m) THEN m ELSE extracted(m, extract_results(m.ret))

----------------------------------------------------------------------------
(* Command line parsing: getopt.getopt(args, shortopts) *)

Has(seq, x) == \E i \in 1..Len(seq) : seq[i] = x

\* c is an option letter of shortopts
InShort(c, shortopts) ==
    c # 58 /\ \E i \in 1..Len(shortopts) : shortopts[i] = c

\* short_has_arg(opt, shortopts), for an option letter of shortopts
HasArg(c, shortopts) ==
    LET i == CHOOSE j \in 1..Len(shortopts) :
                 /\ shortopts[j] = c
                 /\ \A k \in 1..(j - 1) : shortopts[k] # c
    IN  i < Len(shortopts) /\ shortopts[i + 1] = 58

GetoptError == [ok |-> FALSE, opts |-> <<>>, args |-> <<>>]

\* do_shorts(opts, optstring, shortopts, args)
RECURSIVE do_shorts(_, _, _, _)
do_shorts(opts, optstring, shortopts, rest) ==
    IF optstring = <<>> THEN [ok |-> TRUE, opts |-> opts, args |-> rest]
    ELSE LET opt  == Head(optstring)
             more == Tail(optstring)
         IN  IF ~InShort(opt, shortopts) THEN GetoptError
             ELSE IF HasArg(opt, shortopts)
             THEN IF more = <<>>
                  THEN IF rest = <<>> THEN GetoptError
                       ELSE [ok |-> TRUE,
                             opts |-> Append(opts, <<<<45, opt>>, rest[1]>>),
                             args |-> Tail(rest)]
                  ELSE [ok |-> TRUE,
                        opts |-> Append(opts, <<<<45, opt>>, more>>),
                        args |-> rest]
             ELSE do_shorts(Append(opts, <<<<45, opt>>, <<>>>>), more,
                            shortopts, rest)

\* the loop of getopt with no long options
RECURSIVE getopt_loop(_, _, _)
getopt_loop(opts, a, shortopts) ==
    IF a # <<>> /\ a[1] # <<>> /\ a[1][1] = 45 /\ a[1] # <<45>>
    THEN IF a[1] = <<45, 45>>
         THEN [ok |-> TRUE, opts |-> opts, args |-> Tail(a)]
         ELSE IF a[1][2] = 45 THEN GetoptError
         ELSE LET r == do_shorts(opts, Tail(a[1]), shortopts, Tail(a))
              IN  IF r.ok THEN getopt_loop(r.opts, r.args, shortopts)
                  ELSE r
    ELSE [ok |-> TRUE, opts |-> opts, args |-> a]

getopt(a, shortopts) == getopt_loop(<<>>, a, shortopts)

\* the argument of the last option named o, <<"None">> if there is none
RECURSIVE LastOpt(_, _, _)
LastOpt(opts, o, default) ==
    IF opts = <<>> THEN default
    ELSE IF opts[Len(opts)][1] = o THEN opts[Len(opts)][2]
    ELSE LastOpt(SubSeq(opts, 1, Len(opts) - 1), o, default)

HasOpt(opts, o) == \E i \in 1..Len(opts) : opts[i][1] = o

\* int(s) for an optional sign and ASCII digits; anything else in the
\* modelled command lines is a ValueError
IsDigits(s) == s # <<>> /\ \A i \in 1..Len(s) : s[i] \in 48..57

RECURSIVE DigitsValue(_)
DigitsValue(s) ==
    IF s = <<>> THEN 0
    ELSE DigitsValue(SubSeq(s, 1, Len(s) - 1)) * 10 + (s[Len(s)] - 48)

int(s) ==
    IF IsDigits(s) THEN [ok |-> TRUE, val |-> DigitsValue(s)]
    ELSE IF s # <<>> /\ s[1] \in {43, 45} /\ IsDigits(Tail(s))
    THEN [ok |-> TRUE,
          val |-> IF s[1] = 45 THEN 0 - DigitsValue(Tail(s))
                  ELSE DigitsValue(Tail(s))]
    ELSE [ok |-> FALSE, val |-> 0]

\* "{}".format(n) for an integer
RECURSIVE NatStr(_)
NatStr(n) ==
    IF n < 10 THEN <<48 + n>> ELSE NatStr(n \div 10) \o <<48 + (n % 10)>>

IntStr(n) == IF n < 0 THEN <<45>> \o NatStr(0 - n) ELSE NatStr(n)

\* "{}".format(b) for a bool
BoolStr(b) == IF b THEN S_True ELSE S_False

\* str.strip(), for the ASCII white space
IsSpace(c) == c \in {9, 10, 11, 12, 13, 32}

strip(s) ==
    LET I == {i \in 1..Len(s) : ~IsSpace(s[i])}
    IN  IF I = {} THEN <<>>
        ELSE SubSeq(s, CHOOSE i \in I : \A j \in I : i <= j,
                       CHOOSE i \in I : \A j \in I : i >= j)

\* argv_to_str(argv), lines 223-236
RECURSIVE argv_to_str_from(_, _)
argv_to_str_from(a, i) ==
    IF i > Len(a) THEN <<>>
    ELSE <<34>> \o a[i] \o <<34>>
             \o (IF i # Len(a) THEN <<44, 32>> ELSE <<>>)
             \o argv_to_str_from(a, i + 1)

\* a rendering with a separator after the last argument too
argv_to_str_mut(a) ==
    argv_to_str_from(a, 1) \o (IF a = <<>> THEN <<>> ELSE <<44, 32>>)

argv_to_str(a) == argv_to_str_from(a, 1)

(* The command set, line 106-119 *)

\* cat
C_cat == <<99, 97, 116>>

\* cp
C_cp == <<99, 112>>

\* du
C_du == <<100, 117>>

\* exit
C_exit == <<101, 120, 105, 116>>

\* free
C_free == <<102, 114, 101, 101>>

\* help
C_help == <<104, 101, 108, 112>>

\* ls
C_ls == <<108, 115>>

\* mkdir
C_mkdir == <<109, 107, 100, 105, 114>>

\* mv
C_mv == <<109, 118>>

\* restore
C_restore == <<114, 101, 115, 116, 111, 114, 101>>

\* rm
C_rm == <<114, 109>>

\* sysinfo
C_sysinfo == <<115, 121, 115, 105, 110, 102, 111>>

COMMANDS ==
    {C_cat, C_cp, C_du, C_exit, C_free, C_help, C_ls,
     C_mkdir, C_mv, C_restore, C_rm, C_sysinfo}

----------------------------------------------------------------------------
(* The local file system: what iterating over open(path, "r") yields.  A   *)
(* path outside the domain does not exist.                                 *)

\* /w/a
P_a == <<47, 119, 47, 97>>

\* /w/b
P_b == <<47, 119, 47, 98>>

\* /w/cli_module.py
P_cli ==
    <<47, 119, 47, 99, 108, 105, 95, 109, 111, 100, 117, 108, 101, 46,
      112, 121>>

\* /w/e
P_e == <<47, 119, 47, 101>>

\* three lines, with a quote, a backslash and a tab
LinesA ==
    <<<<97, 98, 10>>,
      <<99, 39, 100, 10>>,
      <<101, 92, 102, 9, 103, 10>>>>

\* one line without a line end
LinesB ==
    <<<<120>>>>

\* the cli module, cut down to two of its lines
LinesCli ==
    <<<<105, 109, 112, 111, 114, 116, 32, 117, 111, 115, 10>>,
      <<66, 69, 71, 32, 61, 32, 39, 35, 39, 10>>>>

\* an empty file
LinesE == <<>>

Files == [p \in {P_a, P_b, P_cli, P_e} |->
              IF p = P_a THEN LinesA ELSE IF p = P_b THEN LinesB
              ELSE IF p = P_e THEN LinesE ELSE LinesCli]

\* os.path.realpath(p) for a path without links, "." or ".." below the
\* working directory
realpath(p) ==
    IF p = <<>> THEN DEFAULT_PATH
    ELSE IF p[1] = 47 THEN p
    ELSE IF Len(p) >= 2 /\ p[1] = 46 /\ p[2] = 47
    THEN DEFAULT_PATH \o <<47>> \o SubSeq(p, 3, Len(p))
    ELSE DEFAULT_PATH \o <<47>> \o p

\* os.path.basename(p)
basename(p) ==
    LET I == {i \in 1..Len(p) : p[i] = 47}
    IN  IF I = {} THEN p
        ELSE SubSeq(p, (CHOOSE i \in I : \A j \in I : i >= j) + 1, Len(p))

\* dedup(*pathes), lines 451-466
RECURSIVE dedup_from(_, _, _)
dedup_from(pathes, i, result) ==
    IF i > Len(pathes) THEN result
    ELSE LET p == realpath(pathes[i])
         IN  dedup_from(pathes, i + 1,
                        IF Has(result, p) THEN result ELSE Append(result, p))

\* a dedup that keeps every path
dedup_mut(pathes) == [i \in 1..Len(pathes) |-> realpath(pathes[i])]

dedup(pathes) == dedup_from(pathes, 1, <<>>)

----------------------------------------------------------------------------
(* serial_fwrite, lines 837-858 *)

\* a replace that changes the first occurrence only
replace_mut(s, old, new) ==
    LET i == find(s, old, 1)
    IN  IF i = 0 THEN s
        ELSE SubSeq(s, 1, i - 1) \o new \o SubSeq(s, i + Len(old), Len(s))

\* str.replace(old, new)
replace(s, old, new) == join(new, split(s, old))

\* a table that escapes the letter n as well
SUBSTITUTES_mut ==
    << <<<<92>>, <<92, 92>>>>,
       <<<<10>>, <<92, 110>>>>,
       <<<<13>>, <<92, 114>>>>,
       <<<<9>>, <<32, 32, 32, 32>>>>,
       <<<<39>>, <<92, 39>>>>,
       <<<<110>>, <<92, 110>>>> >>

\* SUBSTITUTES, lines 135-141, in the order of the dict
SUBSTITUTES ==
    << <<<<92>>, <<92, 92>>>>,
       <<<<10>>, <<92, 110>>>>,
       <<<<13>>, <<92, 114>>>>,
       <<<<9>>, <<32, 32, 32, 32>>>>,
       <<<<39>>, <<92, 39>>>> >>

\* the substitutions from the last one of the table to the first
RECURSIVE substitute_down(_, _)
substitute_down(line, i) ==
    IF i < 1 THEN line
    ELSE substitute_down(
             replace(line, SUBSTITUTES[i][1], SUBSTITUTES[i][2]), i - 1)

substitute_from_mut(line, i) == substitute_down(line, Len(SUBSTITUTES))

\* lines 849-853: every substitution in turn
RECURSIVE substitute_from(_, _)
substitute_from(line, i) ==
    IF i > Len(SUBSTITUTES) THEN line
    ELSE substitute_from(
             replace(line, SUBSTITUTES[i][1], SUBSTITUTES[i][2]), i + 1)

\* the substitutions applied in two passes
substitute_mut(line) == substitute_from(substitute_from(line, 1), 1)

substitute(line) == substitute_from(line, 1)

\* lines 848-857: one write statement per line
RECURSIVE fwrite_lines(_, _, _)
fwrite_lines(m, lines, i) ==
    IF i > Len(lines) THEN m
    ELSE fwrite_lines(
             serial_write(m, S_write \o substitute(lines[i]) \o S_encode),
             lines, i + 1)

\* a transfer that leaves the handle on the device open
serial_fwrite_mut(m, src, dest) ==
    IF ~Ok(m) THEN m
    ELSE IF realpath(src) \notin DOMAIN Files
    THEN Raise(m, Exc("FileNotFoundError", Errno(2)))
    ELSE fwrite_lines(serial_write(m, S_open \o dest \o S_open_w),
                      Files[realpath(src)], 1)

serial_fwrite(m, src, dest) ==
    IF ~Ok(m) THEN m
    ELSE IF realpath(src) \notin DOMAIN Files
    THEN Raise(m, Exc("FileNotFoundError", Errno(2)))
    ELSE serial_write(
             fwrite_lines(serial_write(m, S_open \o dest \o S_open_w),
                          Files[realpath(src)], 1),
             S_fclose)

----------------------------------------------------------------------------
(* The command handlers.  argv is the tuple of arguments, reply the bytes  *)
(* the device sends in answer to the statement that is read back.  A help  *)
(* message goes to stderr and changes nothing that is modelled.            *)

\* cat(*argv), lines 238-265
cat(m, a, reply) ==
    IF Len(a) = 0 \/ Has(a, O_h) THEN m
    ELSE LET m1 == ser_open(m)
             m2 == serial_write(m1, S_cat \o argv_to_str(a) \o S_close)
             m3 == serial_read(m2, reply)
             m4 == ser_close(m3)
             m5 == extract(m4)
         IN  print_results(m5)

\* lines 324-345: an option -s or -d with another value than serial or local
BadPlace(opts) ==
    \E i \in 1..Len(opts) :
        /\ opts[i][1] \in {O_s, O_d}
        /\ opts[i][2] \notin {S_serial, S_local}

\* a copy into a directory that keeps the whole path of the source
RECURSIVE fwrite_into_mut(_, _, _, _)
fwrite_into_mut(m, srcs, dest, i) ==
    IF i > Len(srcs) THEN m
    ELSE fwrite_into_mut(
             serial_fwrite(m, srcs[i], dest \o <<47>> \o srcs[i]),
             srcs, dest, i + 1)

\* lines 397-402: every source into the directory dest
RECURSIVE fwrite_into(_, _, _, _)
fwrite_into(m, srcs, dest, i) ==
    IF i > Len(srcs) THEN m
    ELSE fwrite_into(
             serial_fwrite(m, srcs[i],
                           dest \o <<47>> \o basename(srcs[i])),
             srcs, dest, i + 1)

\* a copy that goes on after a probe that failed
copy_sources_mut(m, srcs, dest) ==
    IF ~Ok(m) THEN serial_fwrite(Caught(m), srcs[1], dest)
    ELSE IF strip(m.ret) = S_TRUE THEN fwrite_into(m, srcs, dest, 1)
    ELSE IF Len(srcs) = 1 THEN serial_fwrite(m, srcs[1], dest)
    ELSE Raise(m, Exc("ValueError", Absent))

\* lines 393-430: what is copied depends on the answer to is_dir, left in
\* m.ret
copy_sources(m, srcs, dest) ==
    IF ~Ok(m) THEN m
    ELSE IF strip(m.ret) = S_TRUE THEN fwrite_into(m, srcs, dest, 1)
    ELSE IF Len(srcs) = 1 THEN serial_fwrite(m, srcs[1], dest)
    ELSE Raise(m, Exc("ValueError", Absent))

\* lines 375-430: the body of the try statement
cp_try(m, srcs0, dest, reply) ==
    IF strip(dest) = <<>> THEN Raise(m, Exc("ValueError", Absent))
    ELSE LET m1 == ser_open(m)
             m2 == serial_write(m1, S_is_dir \o dest \o S_qclose)
             m3 == serial_read(m2, reply)
             m4 == extract(m3)
         IN  copy_sources(m4, dedup(srcs0), dest)

\* lines 432-435: except Exception and finally
cp_finally(t) ==
    close_port(IF IsException(t.exc) THEN error(Caught(t), t.exc) ELSE t)

\* cp(*argv), lines 267-449
cp(m, a, reply) ==
    IF Has(a, O_h) THEN m
    ELSE LET g == getopt(a, <<114, 115, 58, 100, 58>>)
         IN  IF ~g.ok \/ Len(g.args) < 2 \/ BadPlace(g.opts) THEN m
             ELSE LET srcs == SubSeq(g.args, 1, Len(g.args) - 1)
                      dest == g.args[Len(g.args)]
                      s    == LastOpt(g.opts, O_s, S_local)
                      d    == LastOpt(g.opts, O_d, S_serial)
                  IN  IF ~(s = S_local /\ d = S_serial) THEN m
                      ELSE IF /\ Len(srcs) = 1
                              /\ srcs[1] = DEFAULT_PATH \o <<47>> \o CLI_MOD
                              /\ dest = CLI_MOD
                      THEN ser_close(serial_fwrite(ser_open(m), srcs[1],
                                                   dest))
                      ELSE cp_finally(cp_try(m, srcs, dest, reply))

\* lines 503-509: an option -d whose argument is no integer
BadDepth(opts) ==
    \E i \in 1..Len(opts) : opts[i][1] = O_d /\ ~int(opts[i][2]).ok

\* du(*argv), lines 468-524
du(m, a, reply) ==
    IF Has(a, O_h) THEN m
    ELSE LET g == getopt(a, <<100, 58, 104, 102>>)
         IN  IF ~g.ok THEN m
             ELSE IF BadDepth(g.opts)
             THEN Raise(m, Exc("ValueError", Absent))
             ELSE LET max_depth == int(LastOpt(g.opts, O_d, <<45, 49>>)).val
                      human     == HasOpt(g.opts, O_f)
                      paths     == IF Len(g.args) = 0 THEN <<S_dot>>
                                   ELSE g.args
                      m1 == ser_open(m)
                      m2 == serial_write(m1,
                                S_du \o argv_to_str(paths)
                                     \o S_max_depth \o IntStr(max_depth)
                                     \o S_human_readable \o BoolStr(human)
                                     \o S_close)
                      m3 == serial_read(m2, reply)
                      m4 == ser_close(m3)
                      m5 == extract(m4)
                  IN  print_results(m5)

\* ls(*argv), lines 652-714
ls(m, a, reply) ==
    IF Has(a, O_h) THEN m
    ELSE LET g == getopt(a, <<102, 108, 114>>)
         IN  IF ~g.ok THEN m
             ELSE LET paths == IF Len(g.args) = 0 THEN <<S_dot>>
                               ELSE g.args
                      m1 == ser_open(m)
                      m2 == serial_write(m1,
                                S_ls \o argv_to_str(paths)
                                     \o S_human_readable
                                     \o BoolStr(HasOpt(g.opts, O_f))
                                     \o S_list_format
                                     \o BoolStr(HasOpt(g.opts, O_l))
                                     \o S_rec
                                     \o BoolStr(HasOpt(g.opts, O_r))
                                     \o S_close)
                      m3 == serial_read(m2, reply)
                      m4 == ser_close(m3)
                      m5 == extract(m4)
                  IN  print_results(m5)

\* a sysinfo that asks for everything whatever -q names
sysinfo_mut(m, a, reply) ==
    IF Has(a, O_h) THEN m
    ELSE LET g == getopt(a, <<113, 58>>)
         IN  IF ~g.ok THEN m
             ELSE LET m1 == ser_open(m)
                      m2 == serial_write(m1, S_sysinfo \o S_all \o S_qclose)
                      m3 == serial_read(m2, reply)
                      m4 == ser_close(m3)
                      m5 == extract(m4)
                  IN  print_results(m5)

\* sysinfo(*argv), lines 922-980
sysinfo(m, a, reply) ==
    IF Has(a, O_h) THEN m
    ELSE LET g == getopt(a, <<113, 58>>)
         IN  IF ~g.ok THEN m
             ELSE LET query == LastOpt(g.opts, O_q, S_all)
                      m1 == ser_open(m)
                      m2 == serial_write(m1, S_sysinfo \o query \o S_qclose)
                      m3 == serial_read(m2, reply)
                      m4 == ser_close(m3)
                      m5 == extract(m4)
                  IN  print_results(m5)

\* free(*argv), lines 569-586
free(m, a, reply) ==
    IF Has(a, O_h) THEN m ELSE sysinfo(m, <<O_q, S_free>>, reply)

\* restore(*argv), lines 775-796
restore(m, a) ==
    IF Has(a, O_h) THEN m
    ELSE ser_close(serial_write(ser_open(m), S_restore))

\* exit(*argv), lines 526-544
exit(m, a) == IF Has(a, O_h) THEN m ELSE Raise(m, SystemExit(EXIT_SUCCESS))

\* a help that opens and closes the port
no_exchange_mut(m, a) == ser_close(ser_open(m))

\* help, mkdir, mv and rm, lines 603-650, 716-766 and 798-818, print a help
\* message or do nothing
no_exchange(m, a) == m

\* __del__, lines 211-221
del(m) == ser_close(serial_write(ser_open(m), RESET))

\* __init__(port, baudrate), lines 153-209; baudrate is <<>> for None
\* line 201: sys.exit(EXIT_SUCCESS) after the transfer
init_exit(c) == IF Ok(c) THEN Raise(c, SystemExit(EXIT_SUCCESS)) ELSE c

\* a constructor that transfers the module only when nothing is answered
init_transfer_mut(m) ==
    IF Ok(m) /\ Len(m.ret) = 0
    THEN init_exit(cp(m, <<DEFAULT_PATH \o <<47>> \o CLI_MOD, CLI_MOD>>,
                      <<>>))
    ELSE m

\* lines 186-201: the module is transferred when the probe, whose output
\* is left in m.ret, does not find it
init_transfer(m) ==
    IF Ok(m) /\ (Len(m.ret) = 0 \/ Has(split(m.ret, CRLF), ENOENT_LINE))
    THEN init_exit(cp(m, <<DEFAULT_PATH \o <<47>> \o CLI_MOD, CLI_MOD>>,
                      <<>>))
    ELSE m

\* lines 202-205: the except clauses
init_except(m) ==
    IF IsValueError(m.exc) THEN usage(Caught(m), TRUE)
    ELSE IF m.exc.type = "SerialException" THEN error(Caught(m), m.exc)
    ELSE m

init(m, baudrate, reply) ==
    LET bad == baudrate # <<>>
                 /\ (~int(baudrate).ok \/ int(baudrate).val <= 0)
        m1 == IF bad THEN Raise(m, Exc("ValueError", Absent))
              ELSE Serial(m)
        m2 == serial_write(m1, PROBE)
        m3 == serial_read(m2, reply)
        m4 == ser_close(m3)
    IN  init_except(init_transfer(m4))

\* the main program, lines 983-1014, up to the call of start or run; the
\* result tells whether the constructor was called
main(m, line, reply) ==
    LET g == getopt(line, <<98, 58, 104, 112, 58, 105>>)
        none == [m |-> usage(m, TRUE), obj |-> FALSE, interactive |-> FALSE,
                 args |-> <<>>]
    IN  IF ~g.ok \/ Len(g.opts) = 0 THEN none
        ELSE IF Has(g.opts, <<O_h, <<>>>>)
        THEN [none EXCEPT !.m = usage(m, FALSE)]
        ELSE IF ~HasOpt(g.opts, O_p) THEN none
        ELSE [m |-> init(m, LastOpt(g.opts, O_b, <<>>), reply),
              obj |-> TRUE,
              interactive |-> HasOpt(g.opts, O_i),
              args |-> g.args]

----------------------------------------------------------------------------
(* Spec: the process from its start to the end of the interpreter.  The    *)
(* inputs are the command line, the lines typed in interactive mode, the   *)
(* bytes the device answers with and the transport operation that fails.   *)

\* /dev/ttyUSB0
T_dev == <<47, 100, 101, 118, 47, 116, 116, 121, 85, 83, 66, 48>>

\* 9600
T_9600 == <<57, 54, 48, 48>>

\* 0
T_0 == <<48>>

\* 1
T_1 == <<49>>

\* x
T_x == <<120>>

\* -x
T_bad == <<45, 120>>

\* f
T_f == <<102>>

\* g
T_g == <<103>>

\* a
T_a == <<97>>

\* ./a
T_a2 == <<46, 47, 97>>

\* b
T_b == <<98>>

\* d
T_dest == <<100>>

\* e
T_e == <<101>>

\* nofile
T_nofile == <<110, 111, 102, 105, 108, 101>>

\*  
T_blank == <<32>>

\* bogus
T_bogus == <<98, 111, 103, 117, 115>>

\* hostname
T_hostname == <<104, 111, 115, 116, 110, 97, 109, 101>>

\* foo
T_foo == <<102, 111, 111>>

\* a name of 255 characters, the first of them not ASCII: e acute, then a
T_long == <<233>> \o [i \in 1..254 |-> 97]

\* the options of the program
MainOpts ==
    {<<>>,
     <<O_h>>,
     <<T_bad>>,
     <<O_b, T_9600>>,
     <<O_p, T_dev>>,
     <<O_p, T_dev, O_b, T_9600>>,
     <<O_p, T_dev, O_b, T_0>>,
     <<O_p, T_dev, O_b, T_x>>,
     <<O_i, O_p, T_dev>>}

\* command lines: typed in interactive mode or given after the options
Lines ==
    {<<C_cat>>,
     <<C_cat, O_h>>,
     <<C_cat, T_f>>,
     <<C_cat, T_f, T_g>>,
     <<C_cat, T_long>>,
     <<C_cp, O_h>>,
     <<C_cp, T_a>>,
     <<C_cp, T_a, T_dest>>,
     <<C_cp, T_e, T_dest>>,
     <<C_cp, T_a, T_a2, T_dest>>,
     <<C_cp, T_a, T_b, T_dest>>,
     <<C_cp, O_s, S_local, O_d, S_local, T_a, T_dest>>,
     <<C_cp, T_bad, T_a, T_dest>>,
     <<C_cp, O_s, T_bogus, T_a, T_dest>>,
     <<C_cp, O_s, S_serial, T_a, T_dest>>,
     <<C_cp, T_nofile, T_dest>>,
     <<C_cp, P_cli, CLI_MOD>>,
     <<C_du>>,
     <<C_du, O_h>>,
     <<C_du, O_f, T_f>>,
     <<C_du, O_d, T_1, T_f>>,
     <<C_du, O_d, T_x>>,
     <<C_du, T_bad>>,
     <<C_ls>>,
     <<C_ls, O_h>>,
     <<C_ls, O_l, T_f>>,
     <<C_ls, T_bad>>,
     <<C_sysinfo>>,
     <<C_sysinfo, O_h>>,
     <<C_sysinfo, O_q, T_hostname>>,
     <<C_sysinfo, T_bad>>,
     <<C_free>>,
     <<C_free, O_h>>,
     <<C_restore>>,
     <<C_restore, O_h>>,
     <<C_exit>>,
     <<C_exit, O_h>>,
     <<C_help>>,
     <<C_help, C_cat>>,
     <<C_mkdir, T_dest>>,
     <<C_mv, T_a, T_b>>,
     <<C_rm, T_a>>,
     <<T_foo>>,
     <<>>}

\* a command line only the shell can give: an argument of white space
ArgvLines == {<<C_cp, T_a, T_blank>>}

(* Device answers, as text *)

\* ##### BEGIN RESULTS #####\r\nTRUE\r\n##### END RESULTS #####\r\n
R_true ==
    <<35, 35, 35, 35, 35, 32, 66, 69, 71, 73, 78, 32, 82, 69, 83, 85,
      76, 84, 83, 32, 35, 35, 35, 35, 35, 13, 10, 84, 82, 85, 69, 13,
      10, 35, 35, 35, 35, 35, 32, 69, 78, 68, 32, 82, 69, 83, 85, 76,
      84, 83, 32, 35, 35, 35, 35, 35, 13, 10>>

\* ##### BEGIN RESULTS #####\r\nFALSE\r\n##### END RESULTS #####\r\n
R_false ==
    <<35, 35, 35, 35, 35, 32, 66, 69, 71, 73, 78, 32, 82, 69, 83, 85,
      76, 84, 83, 32, 35, 35, 35, 35, 35, 13, 10, 70, 65, 76, 83, 69,
      13, 10, 35, 35, 35, 35, 35, 32, 69, 78, 68, 32, 82, 69, 83, 85,
      76, 84, 83, 32, 35, 35, 35, 35, 35, 13, 10>>

\* ##### BEGIN RESULTS #####\r\nhostname: esp-01\r\n##### END RESULTS #####\r\n
R_host ==
    <<35, 35, 35, 35, 35, 32, 66, 69, 71, 73, 78, 32, 82, 69, 83, 85,
      76, 84, 83, 32, 35, 35, 35, 35, 35, 13, 10, 104, 111, 115, 116,
      110, 97, 109, 101, 58, 32, 101, 115, 112, 45, 48, 49, 13, 10, 35,
      35, 35, 35, 35, 32, 69, 78, 68, 32, 82, 69, 83, 85, 76, 84, 83,
      32, 35, 35, 35, 35, 35, 13, 10>>

\* >>> \r\n
R_prompt == <<62, 62, 62, 32, 13, 10>>

\* ##### BEGIN RESULTS #####\r\nx\r\n
R_noend ==
    <<35, 35, 35, 35, 35, 32, 66, 69, 71, 73, 78, 32, 82, 69, 83, 85,
      76, 84, 83, 32, 35, 35, 35, 35, 35, 13, 10, 120, 13, 10>>

\* ### [Errno 2] ENOENT ###\r\n
R_enoent ==
    <<35, 35, 35, 32, 91, 69, 114, 114, 110, 111, 32, 50, 93, 32, 69,
      78, 79, 69, 78, 84, 32, 35, 35, 35, 13, 10>>

\* >>> \r\n>>> 
R_stat == <<62, 62, 62, 32, 13, 10, 62, 62, 62, 32>>

\* the answers as bytes: the texts above, no answer, a byte that is not
\* UTF-8 and an answer of exactly one read buffer
Replies ==
    {encode(t) : t \in {R_true, R_false, R_host, R_prompt, R_noend,
                        R_enoent, R_stat}}
        \cup {<<>>, <<62, 255>>,
              [i \in 1..DEFAULT_SER_RDBUF_SIZE |-> 97 + (i % 26)]}

MaxFault == 5

\* ENOENT and EACCES
OpenErrnos == {2, 13}

\* the first transport operation of every handler is the open, the only
\* one whose failure carries an errno
Faults ==
    {[at |-> 0, errno |-> 2]}
        \cup {[at |-> 1, errno |-> e] : e \in OpenErrnos}
        \cup {[at |-> k, errno |-> 2] : k \in 2..MaxFault}

Init ==
    /\ pc = "main"
    /\ obj = FALSE
    /\ ser_conn = "unset"
    /\ interactive = FALSE
    /\ args = <<>>
    /\ exit_code = -1
    /\ cmd = "none"
    /\ argv = <<>>
    /\ ops = <<>>
    /\ printed = <<>>
    /\ exc = NoExc
    /\ ExtractIdle
    /\ WriteIdle
    /\ ReadIdle
    /\ FnIdle
    /\ DevIdle

\* the exit code of a process that an exception ends: the code of
\* SystemExit, 1 for a traceback
ExitCode(e) == IF e.type = "SystemExit" THEN e.code ELSE 1

\* the run m of a handler becomes the state of the process
Ran(m, name, a) ==
    /\ cmd' = name
    /\ argv' = a
    /\ ser_conn' = m.port
    /\ ops' = m.ops
    /\ printed' = m.out
    /\ exc' = m.exc

\* after a handler called by run (lines 826-835) the program ends, after
\* one called by start (lines 909-920) the next line is read; an exception
\* ends both
Handled(m, name, a) ==
    /\ Ran(m, name, a)
    /\ IF ~Ok(m) THEN pc' = "exited" /\ exit_code' = ExitCode(m.exc)
       ELSE IF interactive THEN pc' = "ready" /\ exit_code' = exit_code
       ELSE pc' = "exited" /\ exit_code' = EXIT_SUCCESS
    /\ UNCHANGED <<obj, interactive, args, exVars, wrVars, rdVars, fnVars, devVars>>

\* line is the command line that start reads or that run is given
Given(line) ==
    /\ pc = "ready"
    /\ IF interactive THEN line \in Lines ELSE line = args

\* the result r of main becomes the state of the process
Started(r, a) ==
    /\ Ran(r.m, "main", a)
    /\ obj' = r.obj
    /\ interactive' = r.interactive
    /\ args' = r.args
    /\ IF Ok(r.m) THEN pc' = "ready" /\ exit_code' = exit_code
       ELSE pc' = "exited" /\ exit_code' = ExitCode(r.m.exc)

Main ==
    /\ pc = "main"
    /\ \E o \in MainOpts, line \in Lines \cup ArgvLines, reply \in Replies,
          fault \in Faults :
          \* start ignores the rest of the command line
          /\ Has(o, O_i) => line = <<>>
          /\ Started(main(Machine("unset", fault), o \o line, reply),
                     o \o line)
    /\ UNCHANGED <<exVars, wrVars, rdVars, fnVars, devVars>>

\* run without a command, lines 826-827
RunUsage ==
    /\ Given(<<>>)
    /\ ~interactive
    /\ Handled(usage(Machine(ser_conn, [at |-> 0, errno |-> 2]), TRUE),
               "run", <<>>)

Cat ==
    \E line \in Lines \cup ArgvLines, reply \in Replies, fault \in Faults :
        /\ Given(line) /\ line # <<>> /\ line[1] = C_cat
        /\ Handled(cat(Machine(ser_conn, fault), Tail(line), reply),
                   "cat", Tail(line))

Cp ==
    \E line \in Lines \cup ArgvLines, reply \in Replies, fault \in Faults :
        /\ Given(line) /\ line # <<>> /\ line[1] = C_cp
        /\ Handled(cp(Machine(ser_conn, fault), Tail(line), reply),
                   "cp", Tail(line))

Du ==
    \E line \in Lines \cup ArgvLines, reply \in Replies, fault \in Faults :
        /\ Given(line) /\ line # <<>> /\ line[1] = C_du
        /\ Handled(du(Machine(ser_conn, fault), Tail(line), reply),
                   "du", Tail(line))

Ls ==
    \E line \in Lines \cup ArgvLines, reply \in Replies, fault \in Faults :
        /\ Given(line) /\ line # <<>> /\ line[1] = C_ls
        /\ Handled(ls(Machine(ser_conn, fault), Tail(line), reply),
                   "ls", Tail(line))

Sysinfo ==
    \E line \in Lines \cup ArgvLines, reply \in Replies, fault \in Faults :
        /\ Given(line) /\ line # <<>> /\ line[1] = C_sysinfo
        /\ Handled(sysinfo(Machine(ser_conn, fault), Tail(line), reply),
                   "sysinfo", Tail(line))

Free ==
    \E line \in Lines \cup ArgvLines, reply \in Replies, fault \in Faults :
        /\ Given(line) /\ line # <<>> /\ line[1] = C_free
        /\ Handled(free(Machine(ser_conn, fault), Tail(line), reply),
                   "free", Tail(line))

Restore ==
    \E line \in Lines \cup ArgvLines, fault \in Faults :
        /\ Given(line) /\ line # <<>> /\ line[1] = C_restore
        /\ Handled(restore(Machine(ser_conn, fault), Tail(line)),
                   "restore", Tail(line))

Exit ==
    \E line \in Lines \cup ArgvLines :
        /\ Given(line) /\ line # <<>> /\ line[1] = C_exit
        /\ Handled(exit(Machine(ser_conn, [at |-> 0, errno |-> 2]),
                        Tail(line)),
                   "exit", Tail(line))

\* help, mkdir, mv, rm
NoExchange ==
    \E line \in Lines \cup ArgvLines :
        /\ Given(line) /\ line # <<>>
        /\ line[1] \in {C_help, C_mkdir, C_mv, C_rm}
        /\ Handled(no_exchange(Machine(ser_conn, [at |-> 0, errno |-> 2]),
                               Tail(line)),
                   "help", Tail(line))

\* a line that names no command: help(), lines 834-835 and 918-919; so
\* does an empty line in interactive mode
Unknown ==
    \E line \in Lines \cup ArgvLines :
        /\ Given(line)
        /\ IF line = <<>> THEN interactive ELSE line[1] \notin COMMANDS
        /\ Handled(no_exchange(Machine(ser_conn, [at |-> 0, errno |-> 2]),
                               <<>>),
                   "help", <<>>)

\* the interpreter ends and finalizes the object: __del__; what it raises
\* is ignored
Del ==
    /\ pc = "exited"
    /\ obj
    /\ \E fault \in Faults :
          Ran(del(Machine(ser_conn, fault)), "__del__", <<>>)
    /\ pc' = "finalized"
    /\ UNCHANGED <<obj, interactive, args, exit_code, exVars, wrVars, rdVars,
                   fnVars, devVars>>

\* the interpreter ends without an object to finalize, or without
\* finalizing it
NoDel ==
    /\ pc = "exited"
    /\ pc' = "finalized"
    /\ UNCHANGED <<obj, ser_conn, interactive, args, exit_code, cmd, argv,
                   ops, printed, exc, exVars, wrVars, rdVars, fnVars, devVars>>

Next ==
    \/ Main
    \/ RunUsage
    \/ Cat
    \/ Cp
    \/ Du
    \/ Ls
    \/ Sysinfo
    \/ Free
    \/ Restore
    \/ Exit
    \/ NoExchange
    \/ Unknown
    \/ Del
    \/ NoDel

Spec == Init /\ [][Next]_vars

----------------------------------------------------------------------------
(* SpecEcho: the commands that print an answer, run against a device that  *)
(* answers every statement with its arguments between the two markers.     *)

NoFault == [at |-> 0, errno |-> 2]

\* the first statement a handler wrote, <<>> if it wrote none
Written(m) ==
    LET I == {i \in 1..Len(m.ops) : m.ops[i].op = "write"}
    IN  IF I = {} THEN <<>>
        ELSE m.ops[CHOOSE i \in I : \A j \in I : i <= j].text

\* the formatted arguments of a statement name(...)\r\n
Arguments(st) ==
    LET I == {i \in 1..Len(st) : st[i] = 40}
    IN  IF I = {} THEN <<>>
        ELSE SubSeq(st, (CHOOSE i \in I : \A j \in I : i <= j) + 1,
                    Len(st) - 3)

\* the bytes the echoing device answers a statement with
EchoDevice(st) == encode(BEG_RES \o Arguments(st) \o END_RES)

\* b\r\nc
T_crlf == <<98, 13, 10, 99>>

\* x"y
T_quote == <<120, 34, 121>>

EchoTokens == {T_a, T_crlf, T_quote, BEG_RES, END_RES}

\* the command lines given to run
EchoLines ==
    {<<c, t>> : c \in {C_cat, C_du, C_ls}, t \in EchoTokens}
        \cup {<<c, t, u>> : c \in {C_cat, C_du, C_ls},
                           t \in EchoTokens, u \in EchoTokens}
        \cup {<<C_sysinfo, O_q, t>> : t \in EchoTokens}
        \cup {<<C_du>>, <<C_du, O_f, T_a>>, <<C_du, O_d, T_1, T_a>>,
              <<C_ls>>, <<C_ls, O_l, O_r, T_a>>, <<C_ls, O_f, T_a>>,
              <<C_sysinfo>>}

\* the process after main has built the object: r is the result of main
Constructed(r, a) ==
    /\ pc = "ready"
    /\ obj = r.obj
    /\ ser_conn = r.m.port
    /\ interactive = r.interactive
    /\ args = r.args
    /\ exit_code = -1
    /\ cmd = "main"
    /\ argv = a
    /\ ops = r.m.ops
    /\ printed = r.m.out
    /\ exc = r.m.exc

InitEcho ==
    /\ \E line \in EchoLines :
          Constructed(main(Machine("unset", NoFault),
                           <<O_p, T_dev>> \o line, encode(R_stat)),
                      <<O_p, T_dev>> \o line)
    /\ ExtractIdle
    /\ WriteIdle
    /\ ReadIdle
    /\ FnIdle
    /\ DevIdle

EchoCat ==
    /\ Given(args) /\ args[1] = C_cat
    /\ Handled(cat(Machine(ser_conn, NoFault), Tail(args),
                   EchoDevice(Written(cat(Machine(ser_conn, NoFault),
                                          Tail(args), <<>>)))),
               "cat", Tail(args))

EchoDu ==
    /\ Given(args) /\ args[1] = C_du
    /\ Handled(du(Machine(ser_conn, NoFault), Tail(args),
                  EchoDevice(Written(du(Machine(ser_conn, NoFault),
                                        Tail(args), <<>>)))),
               "du", Tail(args))

EchoLs ==
    /\ Given(args) /\ args[1] = C_ls
    /\ Handled(ls(Machine(ser_conn, NoFault), Tail(args),
                  EchoDevice(Written(ls(Machine(ser_conn, NoFault),
                                        Tail(args), <<>>)))),
               "ls", Tail(args))

EchoSysinfo ==
    /\ Given(args) /\ args[1] = C_sysinfo
    /\ Handled(sysinfo(Machine(ser_conn, NoFault), Tail(args),
                       EchoDevice(Written(sysinfo(
                           Machine(ser_conn, NoFault), Tail(args), <<>>)))),
               "sysinfo", Tail(args))

NextEcho ==
    \/ EchoCat
    \/ EchoDu
    \/ EchoLs
    \/ EchoSysinfo

SpecEcho == InitEcho /\ [][NextEcho]_vars

----------------------------------------------------------------------------
(* SpecArgv: argv_to_str on its own, for every list of up to MaxArgs       *)
(* arguments.                                                              *)

MaxArgs == 3

\* the arguments a, b c, x"y, " and the empty one
ArgTokens == {<<97>>, <<98, 32, 99>>, <<120, 34, 121>>, <<34>>, <<>>}

ArgLists == UNION {[1..n -> ArgTokens] : n \in 0..MaxArgs}

InitArgv ==
    /\ fn_pc = "call"
    /\ fn_arg \in ArgLists
    /\ fn_result = <<>>
    /\ ExtractIdle
    /\ WriteIdle
    /\ ReadIdle
    /\ ClientIdle
    /\ DevIdle

ArgvToStr ==
    /\ fn_pc = "call"
    /\ fn_pc' = "return"
    /\ fn_result' = argv_to_str(fn_arg)
    /\ UNCHANGED <<fn_arg, exVars, wrVars, rdVars, cliVars, devVars>>

NextArgv == ArgvToStr

SpecArgv == InitArgv /\ [][NextArgv]_vars

----------------------------------------------------------------------------
(* SpecEscape: the substitutions of serial_fwrite on one line, for every   *)
(* line of up to MaxLine characters.                                       *)

MaxLine == 3

\* a, n, backslash, newline, carriage return, tab and single quote
EscChars == {97, 110, 92, 10, 13, 9, 39}

EscLines == UNION {[1..n -> EscChars] : n \in 0..MaxLine}

InitEscape ==
    /\ fn_pc = "call"
    /\ fn_arg \in EscLines
    /\ fn_result = <<>>
    /\ ExtractIdle
    /\ WriteIdle
    /\ ReadIdle
    /\ ClientIdle
    /\ DevIdle

Substitute ==
    /\ fn_pc = "call"
    /\ fn_pc' = "return"
    /\ fn_result' = substitute(fn_arg)
    /\ UNCHANGED <<fn_arg, exVars, wrVars, rdVars, cliVars, devVars>>

NextEscape == Substitute

SpecEscape == InitEscape /\ [][NextEscape]_vars

----------------------------------------------------------------------------
(* Properties of extract_results.  They are stated on positions in the     *)
(* text, not with split and join.                                          *)

Min(S) == CHOOSE i \in S : \A j \in S : i <= j
Max(S) == CHOOSE i \in S : \A j \in S : i >= j

\* every index at which sep occurs in s, overlapping occurrences included
Occ(s, sep) == {i \in 1..Len(s) : MatchAt(s, sep, i)}

\* s without the characters at the indices in D
WithoutIdx(s, D) ==
    LET idx == SelectSeq([i \in 1..Len(s) |-> i], LAMBDA i : i \notin D)
    IN  [k \in 1..Len(idx) |-> s[idx[k]]]

\* the carriage returns that are followed by a line feed
CrOfCrlf(s) == {i \in 1..(Len(s) - 1) : s[i] = 13 /\ s[i + 1] = 10}

\* s with every CRLF replaced by LF
Normalized(s) == WithoutIdx(s, CrOfCrlf(s))

\* the occurrences of sep a left-to-right, non-overlapping scan finds
RECURSIVE Scan(_, _, _)
Scan(s, sep, from) ==
    LET I == {i \in Occ(s, sep) : i >= from}
    IN  IF I = {} THEN {} ELSE {Min(I)} \cup Scan(s, sep, Min(I) + Len(sep))

\* s without the text of the scanned occurrences of sep
WithoutMarkers(s, sep) ==
    WithoutIdx(s, {i + k : i \in Scan(s, sep, 1), k \in 0..(Len(sep) - 1)})

\* the text after the first occurrence of sep
AfterFirst(s, sep) == SubSeq(s, Min(Occ(s, sep)) + Len(sep), Len(s))

\* exactly one BEG_RES, exactly one END_RES, and END_RES starts after the
\* end of BEG_RES
OnePair(s) ==
    /\ Cardinality(Occ(s, BEG_RES)) = 1
    /\ Cardinality(Occ(s, END_RES)) = 1
    /\ Min(Occ(s, END_RES)) >= Min(Occ(s, BEG_RES)) + Len(BEG_RES)

\* the text strictly between the markers of a OnePair output
Between(s) ==
    SubSeq(s, Min(Occ(s, BEG_RES)) + Len(BEG_RES), Min(Occ(s, END_RES)) - 1)

\* C1 as stated: with exactly one BEGIN and one later END, the payload is
\* exactly the raw text strictly between the two markers.
C1_Original ==
    (ex_pc # "call" /\ OnePair(res_str))
        => (ex_pc = "returned" /\ results = Between(res_str))

\* C1 amended: with exactly one BEGIN and one later END, the payload is the
\* text strictly between the two markers with every CRLF replaced by LF,
\* whatever precedes BEGIN or follows END.
C1_BetweenNormalized ==
    (ex_pc # "call" /\ OnePair(res_str))
        => (ex_pc = "returned" /\ ex_err = "none"
            /\ results = Normalized(Between(res_str)))

C1_Witness ==
    /\ ex_pc = "returned"
    /\ OnePair(res_str)
    /\ Min(Occ(res_str, BEG_RES)) > 1
    /\ Min(Occ(res_str, END_RES)) + Len(END_RES) - 1 < Len(res_str)
    /\ CrOfCrlf(Between(res_str)) # {}

\* an END_RES that starts after the end of the first BEG_RES
EndAfterFirstBegin(s) ==
    \E e \in Occ(s, END_RES) : e >= Min(Occ(s, BEG_RES)) + Len(BEG_RES)

\* C2: without BEGIN the call fails with "No results found"; with BEGIN but
\* no END after the first BEGIN it fails with "Result incomplete"; in both
\* cases the process exits and no payload is returned.
C2_MissingMarkerFails ==
    ex_pc # "call" =>
        /\ Occ(res_str, BEG_RES) = {}
              => (ex_pc = "exited" /\ ex_err = "No results found"
                  /\ results = <<>>)
        /\ (Occ(res_str, BEG_RES) # {} /\ ~EndAfterFirstBegin(res_str))
              => (ex_pc = "exited" /\ ex_err = "Result incomplete"
                  /\ results = <<>>)

\* C3 as stated: with more than one BEGIN, the text kept is all text after
\* the first BEGIN, later BEGIN markers included.
C3_Original ==
    (ex_pc # "call" /\ Cardinality(Occ(res_str, BEG_RES)) > 1)
        => ex_kept = AfterFirst(Normalized(res_str), BEG_RES)

\* C3 amended: with more than one BEGIN, the text kept is the text after the
\* first BEGIN with the text of every later BEGIN marker (found scanning
\* left to right, non-overlapping) removed.
C3_LaterBeginsRemoved ==
    (ex_pc # "call" /\ Cardinality(Occ(res_str, BEG_RES)) > 1)
        => ex_kept = WithoutMarkers(
                         AfterFirst(Normalized(res_str), BEG_RES), BEG_RES)

C3_Witness ==
    /\ ex_pc = "returned"
    /\ Cardinality(Occ(res_str, BEG_RES)) > 1
    /\ Len(ex_kept) > Len(results) + Len(END_RES)

\* C4 as stated: with more than one END in the kept text, the payload is
\* everything before the last END occurrence, earlier END markers included.
C4_Original ==
    (/\ ex_pc = "returned"
     /\ Cardinality(Occ(ex_kept, END_RES)) > 1
     /\ Scan(ex_kept, END_RES, 1) = Occ(ex_kept, END_RES))
        => results = SubSeq(ex_kept, 1, Max(Occ(ex_kept, END_RES)) - 1)

\* C4 amended: with more than one END in the kept text, the payload is the
\* kept text before the last END that a left-to-right, non-overlapping scan
\* finds, with the text of the earlier scanned END markers removed.
C4_EarlierEndsRemoved ==
    (ex_pc # "call" /\ Cardinality(Occ(ex_kept, END_RES)) > 1)
        => /\ ex_pc = "returned"
           /\ results = WithoutMarkers(
                  SubSeq(ex_kept, 1, Max(Scan(ex_kept, END_RES, 1)) - 1),
                  END_RES)

C4_Witness ==
    /\ ex_pc = "returned"
    /\ Cardinality(Scan(ex_kept, END_RES, 1)) > 1
    /\ Len(results) > 0

----------------------------------------------------------------------------
(* Properties of serial_write *)

\* C5: on a buffer whose length is a non-zero multiple of the chunk size,
\* serial_write returns having transmitted every byte of the buffer.
C5_MultipleOfChunkAllSent ==
    (wr_pc = "returned" /\ Len(buf) > 0
     /\ Len(buf) % DEFAULT_SER_WRBUF_SIZE = 0)
        => concat(sent) = encode(buf)

\* C6: for every buffer, multi-byte characters included, the chunks handed
\* to the transport, concatenated in order, are the UTF-8 encoding of the
\* whole buffer.
C6_ChunksAreTheEncoding ==
    wr_pc = "returned" => concat(sent) = encode(buf)

\* C7: every chunk handed to the transport is at most 256 bytes long and
\* every chunk before the last one is exactly 256 bytes long.
C7_ChunkSizes ==
    \A i \in 1..Len(sent) :
        /\ Len(sent[i]) <= DEFAULT_SER_WRBUF_SIZE
        /\ i < Len(sent) => Len(sent[i]) = DEFAULT_SER_WRBUF_SIZE

----------------------------------------------------------------------------
(* Properties of serial_read *)

\* C8: every read requests 1000 bytes; every response before the last one
\* is 1000 bytes long, so no read follows a shorter response; serial_read
\* ends exactly when a response is shorter than 1000 bytes; the bytes it
\* has accumulated are the responses in order, and the text it returns
\* encodes to them.
C8_ReadUntilShort ==
    /\ \A i \in 1..Len(reads) :
          /\ reads[i].size = DEFAULT_SER_RDBUF_SIZE
          /\ i < Len(reads)
                => Len(reads[i].data) = DEFAULT_SER_RDBUF_SIZE
    /\ rd_pc = "loop"
          => \A i \in 1..Len(reads) :
                 Len(reads[i].data) = DEFAULT_SER_RDBUF_SIZE
    /\ rd_pc \in {"returned", "raised"}
          => /\ Len(reads) >= 1
             /\ Len(reads[Len(reads)].data) < DEFAULT_SER_RDBUF_SIZE
    /\ rd_result = concat([i \in 1..Len(reads) |-> reads[i].data])
    /\ rd_pc = "returned" => encode(rd_text) = rd_result

\* two reads, the second one short, and the device has more to send
C8_Witness ==
    /\ rd_pc = "returned"
    /\ Len(reads) = 2
    /\ Len(reads[2].data) > 0
    /\ Len(incoming) > 0

----------------------------------------------------------------------------
(* Properties of the client: Spec *)

\* a read whose accumulated bytes are not UTF-8
BadRead(ev) == ev.op = "read" /\ ev.ok /\ ~ValidUtf8(concat(ev.chunks))

\* the handlers that read an answer of the device
Readers == {"main", "cat", "cp", "du", "ls", "sysinfo", "free"}

\* C9: when the bytes serial_read accumulated are not valid UTF-8, the
\* command fails and ends the program with an exit code other than 0, it
\* prints no result and writes no further statement to the device; this
\* holds for the constructor's probe and for cat, cp, du, ls and sysinfo.
C9_DecodeFailureIsFatal ==
    \A i \in 1..Len(ops) :
        BadRead(ops[i]) =>
            /\ cmd \in Readers
            /\ exc.type # "none"
            /\ pc \in {"exited", "finalized"}
            /\ exit_code \notin {-1, EXIT_SUCCESS}
            /\ printed = <<>>
            /\ \A j \in (i + 1)..Len(ops) : ops[j].op # "write"

\* cp has read an answer that is not UTF-8
C9_Witness ==
    /\ cmd = "cp"
    /\ \E i \in 1..Len(ops) : BadRead(ops[i])

\* the handlers that open the port
Talkers == {"main", "cat", "cp", "du", "ls", "sysinfo", "free", "restore"}

\* C10: after a handler that talks to the device has finished, normally
\* or with a failed write, read or decoding, the port is not open.
C10_ClosedAfterHandler ==
    (cmd \in Talkers /\ pc # "main") => ser_conn # "open"

\* C11: open is never invoked on the port while it is open, over
\* construction, commands, failing ones included, and destruction.
C11_NeverOpenWhileOpen ==
    \A i \in 1..Len(ops) : ops[i].op # "reopen"

\* s ends with t
EndsWith(s, t) ==
    Len(s) >= Len(t) /\ SubSeq(s, Len(s) - Len(t) + 1, Len(s)) = t

\* the statements written, or tried to be written, by the last handler
Statements == {ops[i].text : i \in {j \in 1..Len(ops) : ops[j].op = "write"}}

----------------------------------------------------------------------------
(* Properties of argv_to_str: SpecArgv *)

\* where the opening quote of the i-th argument stands when every
\* argument before it takes its length, two quotes and a separator
RECURSIVE QuoteAt(_, _)
QuoteAt(a, i) ==
    IF i = 1 THEN 1 ELSE QuoteAt(a, i - 1) + Len(a[i - 1]) + 4

\* C13: argv_to_str renders n arguments as n double-quoted literals in the
\* original order, separated by ", " with no leading or trailing
\* separator, each argument verbatim between its quotes, embedded quotes
\* included; no argument gives the empty string.
C13_QuotedInOrder ==
    fn_pc = "return" =>
        LET a == fn_arg
            r == fn_result
            n == Len(a)
        IN  /\ Len(r) = IF n = 0 THEN 0 ELSE QuoteAt(a, n + 1) - 3
            /\ \A i \in 1..n :
                   LET q == QuoteAt(a, i)
                       e == q + Len(a[i]) + 1
                   IN  /\ r[q] = 34
                       /\ SubSeq(r, q + 1, e - 1) = a[i]
                       /\ r[e] = 34
                       /\ i < n => SubSeq(r, e + 1, e + 2) = <<44, 32>>

\* three arguments, one of them with a quote in it, have been rendered
C13_Witness ==
    /\ fn_pc = "return"
    /\ Len(fn_arg) = MaxArgs
    /\ \E i \in 1..Len(fn_arg) : Has(fn_arg[i], 34)
    /\ fn_result # <<>>

----------------------------------------------------------------------------
(* Properties of the round trip: SpecEcho *)

\* the formatted arguments of the statement the handler wrote
Formatted == Arguments(Written([ops |-> ops]))

\* a handler has run against the echoing device
Echoed == pc = "exited" /\ cmd \in {"cat", "du", "ls", "sysinfo"}

\* C14 as stated: for every command, argument list and options the
\* formatted arguments of the statement, echoed between the markers and
\* passed through extract_results, come back exactly.
C14_Original ==
    Echoed => printed = <<Formatted>>

\* C14: the formatted arguments come back exactly when they hold no CRLF
\* and no text of a BEGIN or END marker.
C14_RoundTrip ==
    (/\ Echoed
     /\ Occ(Formatted, CRLF) = {}
     /\ Occ(Formatted, BEG_RES) = {}
     /\ Occ(Formatted, END_RES) = {})
        => printed = <<Formatted>> /\ exit_code = EXIT_SUCCESS

\* du has printed the arguments and options that came back
C14_Witness ==
    /\ Echoed
    /\ cmd = "du"
    /\ Len(argv) = 3
    /\ Occ(Formatted, CRLF) = {}
    /\ Occ(Formatted, BEG_RES) = {}
    /\ Occ(Formatted, END_RES) = {}
    /\ printed = <<Formatted>>
    /\ Formatted # <<>>

----------------------------------------------------------------------------
(* Properties of the file transfer: Spec *)

\* s starts with t
StartsWith(s, t) == Len(s) >= Len(t) /\ SubSeq(s, 1, Len(t)) = t

\* the statements of the write events of the last handler, in order
RECURSIVE WriteTextsFrom(_)
WriteTextsFrom(i) ==
    IF i > Len(ops) THEN <<>>
    ELSE (IF ops[i].op = "write" THEN <<ops[i].text>> ELSE <<>>)
             \o WriteTextsFrom(i + 1)

WriteTexts == WriteTextsFrom(1)

\* the statements that transfer lines to dest
TransferOf(lines, dest) ==
    <<S_open \o dest \o S_open_w>>
        \o [i \in 1..Len(lines) |-> S_write \o substitute(lines[i]) \o S_encode]
        \o <<S_fclose>>

\* cp has copied its one source without a failure
CopiedOne ==
    /\ cmd = "cp"
    /\ exc.type = "none"
    /\ Len(argv) = 2
    /\ WriteTexts # <<>>

\* C15: for a source of N lines serial_fwrite sends N + 2 statements: one
\* that opens the destination for writing, one write per line in the
\* order of the source, one that closes the handle; then cp closes the
\* port.
C15_TransferStatements ==
    CopiedOne =>
        LET lines == Files[realpath(argv[1])]
            stmts == IF StartsWith(WriteTexts[1], S_is_dir)
                     THEN Tail(WriteTexts) ELSE WriteTexts
        IN  /\ Len(stmts) = Len(lines) + 2
            /\ \E d \in {argv[2], argv[2] \o <<47>> \o basename(argv[1])} :
                   stmts = TransferOf(lines, d)
            /\ ops[Len(ops)].op = "close"
            /\ \A i \in 1..(Len(ops) - 1) : ops[i].op # "close"
            /\ ser_conn = "closed"

\* the three lines of a have been copied to a destination that is no
\* directory: one open, three writes, one close
C15_Witness ==
    /\ CopiedOne
    /\ argv = <<T_a, T_dest>>
    /\ \E i \in 1..Len(ops) :
           ops[i].op = "read" /\ ops[i].chunks = <<encode(R_false)>>
    /\ Len(WriteTexts) = 6
    /\ WriteTexts[2] = S_open \o T_dest \o S_open_w
    /\ WriteTexts[6] = S_fclose

----------------------------------------------------------------------------
(* Properties of the escaping: SpecEscape *)

MetaChars == {92, 10, 13, 9, 39}

NonMeta(s) == \A i \in 1..Len(s) : s[i] \notin MetaChars

\* C17: a line without backslash, newline, carriage return, tab and single
\* quote is left unchanged, so escaping it again, any number of times,
\* gives the same text.
C17_NoMetaUnchanged ==
    (fn_pc = "return" /\ NonMeta(fn_arg))
        => /\ fn_result = fn_arg
           /\ substitute(fn_result) = fn_result

\* a line of MaxLine characters without metacharacters has been escaped
C17_Witness ==
    /\ fn_pc = "return"
    /\ NonMeta(fn_arg)
    /\ Len(fn_arg) = MaxLine
    /\ Len(fn_result) = MaxLine

\* what the table gives for one character
EscapeOf(c) ==
    LET I == {i \in 1..Len(SUBSTITUTES) : SUBSTITUTES[i][1] = <<c>>}
    IN  IF I = {} THEN <<c>> ELSE SUBSTITUTES[CHOOSE i \in I : TRUE][2]

\* the table applied once to every character of s
SinglePass(s) == concat([i \in 1..Len(s) |-> EscapeOf(s[i])])

\* C18: the backslash is substituted before the substitutions that
\* introduce one, so the escaped line is the table applied once to every
\* character: no backslash that escapes a newline, a carriage return or a
\* single quote is doubled.
C18_SinglePass ==
    fn_pc = "return" => fn_result = SinglePass(fn_arg)

\* a line with a backslash, a newline and a single quote has been escaped
C18_Witness ==
    /\ fn_pc = "return"
    /\ Has(fn_arg, 92)
    /\ Has(fn_arg, 10)
    /\ Has(fn_arg, 39)
    /\ Len(fn_result) = 6

\* the character a string literal of the device takes for an escape
\* sequence backslash c, -1 for one the escaping never writes
Escaped(c) ==
    IF c = 92 THEN 92
    ELSE IF c = 39 THEN 39
    ELSE IF c = 110 THEN 10
    ELSE IF c = 114 THEN 13
    ELSE IF c = 116 THEN 9
    ELSE -1

\* the text of the single-quoted string literal 's' on the device; -1
\* stands where the literal is broken
RECURSIVE Literal(_)
Literal(s) ==
    IF s = <<>> THEN <<>>
    ELSE IF s[1] = 92
    THEN IF Len(s) = 1 THEN <<-1>>
         ELSE <<Escaped(s[2])>> \o Literal(SubSeq(s, 3, Len(s)))
    ELSE IF s[1] \in {39, 10, 13} THEN <<-1>> \o Literal(Tail(s))
    ELSE <<s[1]>> \o Literal(Tail(s))

\* C19: the escaped text of a line, read by the device as a single-quoted
\* string literal, is the line itself.
C19_LiteralIsLine ==
    fn_pc = "return" => Literal(fn_result) = fn_arg

----------------------------------------------------------------------------
(* Properties of the configuration: Spec *)

\* a command line that asks for no help and names no port, or gives a baud
\* rate that is no integer or not positive
ConfigError(a) ==
    LET g == getopt(a, <<98, 58, 104, 112, 58, 105>>)
        b == int(LastOpt(g.opts, O_b, T_9600))
    IN  /\ g.ok
        /\ ~Has(g.opts, <<O_h, <<>>>>)
        /\ ~HasOpt(g.opts, O_p) \/ ~b.ok \/ b.val <= 0

\* main has ended on a configuration error
ConfigFailed == cmd = "main" /\ ConfigError(argv)

\* C20: a baud rate that is no integer or not positive, or a missing port
\* option, ends the process with the failure code before the port is
\* opened or written to, and the teardown of the object, if there is one,
\* neither opens the port nor writes to it.
C20_ConfigErrorBeforeOpen ==
    /\ [](ConfigFailed =>
            /\ pc \in {"exited", "finalized"}
            /\ exit_code = EXIT_FAILURE
            /\ ser_conn = "unset"
            /\ ops = <<>>)
    /\ [][ConfigFailed => (ser_conn' = "unset" /\ ops' = <<>>)]_vars

\* the object of a process that ended on a bad baud rate has been
\* finalized
C20_Witness ==
    /\ pc = "finalized"
    /\ cmd = "__del__"
    /\ obj
    /\ exit_code = EXIT_FAILURE
    /\ ser_conn = "unset"
    /\ exc.type = "AttributeError"

----------------------------------------------------------------------------
(* Exit codes of a process that a failure ends *)

\* the transport operations of the last handler that failed
FailedOps == {i \in 1..Len(ops) : ~ops[i].ok}

\* C21: a process that ends after a failed transport operation has the
\* OS error number of a failed open as its exit code and 255 after any
\* other failure, never 0.
C21_FailureExitCode ==
    (pc = "exited" /\ FailedOps # {}) =>
        \A i \in FailedOps :
            IF ops[i].op = "open" THEN exit_code \in OpenErrnos
            ELSE exit_code = EXIT_FAILURE

----------------------------------------------------------------------------
(* The sysinfo command end to end *)

\* hostname: esp-01
HostLine ==
    <<104, 111, 115, 116, 110, 97, 109, 101, 58, 32, 101, 115, 112, 45,
      48, 49>>

\* the last handler is sysinfo with a command line that reaches the device
SysinfoSent ==
    /\ cmd = "sysinfo"
    /\ ~Has(argv, O_h)
    /\ getopt(argv, <<113, 58>>).ok

\* the key the command line names, "all" without -q
QueryKey == LastOpt(getopt(argv, <<113, 58>>).opts, O_q, S_all)

\* the operations of one complete exchange of the statement st
OneExchange(st) ==
    /\ Len(ops) = 4
    /\ \A i \in 1..4 : ops[i].ok
    /\ ops[1].op = "open"
    /\ ops[2].op = "write" /\ ops[2].text = st
    /\ ops[3].op = "read"
    /\ ops[4].op = "close"

\* the text of the answer that was read
Answer == decode(concat(ops[3].chunks))

\* the sysinfo command has come back from an answer of the device
SysinfoDone == SysinfoSent /\ exc.type = "none"

\* C22 as stated: sysinfo -q hostname against the answer BEGIN line,
\* hostname: esp-01, END line prints exactly hostname: esp-01.
C22_Original ==
    (SysinfoDone /\ QueryKey = T_hostname /\ Answer = R_host) =>
        printed = <<HostLine>>

\* C22: sysinfo -q K writes the statement sysinfo(query="K") at most once
\* and nothing else; when it returns it has done exactly open, that
\* write, one read and close, and has printed the payload extract_results
\* finds in the answer.  For K = hostname and the answer BEGIN line,
\* hostname: esp-01, END line (CRLF-terminated) what is printed is
\* hostname: esp-01 between two newlines.
C22_SysinfoEndToEnd ==
    SysinfoSent =>
        /\ \A i \in 1..Len(ops) :
               ops[i].op = "write" =>
                   /\ ops[i].text = S_sysinfo \o QueryKey \o S_qclose
                   /\ \A j \in 1..Len(ops) : ops[j].op = "write" => j = i
        /\ exc.type = "none" =>
               /\ OneExchange(S_sysinfo \o QueryKey \o S_qclose)
               /\ printed = <<extract_results(Answer).results>>
               /\ (QueryKey = T_hostname /\ Answer = R_host) =>
                      printed = << <<10>> \o HostLine \o <<10>> >>

C22_Witness ==
    /\ SysinfoDone
    /\ QueryKey = T_hostname
    /\ Answer = R_host
    /\ printed = << <<10>> \o HostLine \o <<10>> >>


----------------------------------------------------------------------------
(* SpecDevice: the functions of cli_module.py, called one statement at a   *)
(* time at the REPL of the device after the module has been imported, and  *)
(* the functor of boot.py that wraps the class sysinfo.  A call is an      *)
(* operator on a record d: what was printed, the value last returned, the  *)
(* exception that is pending, and the functor's instance.  What the REPL   *)
(* itself prints (the echo, the prompt, a traceback) is not part of out.   *)

\* BEG_RES and END_RES of cli_module.py, lines 31 and 36: the marker lines
DEV_BEG_RES == BEG_RES \o <<10>>
DEV_END_RES == END_RES \o <<10>>

\* Usage: 
M_Usage == <<85, 115, 97, 103, 101, 58, 32>>

\* No file too display
M_no_file ==
    <<78, 111, 32, 102, 105, 108, 101, 32, 116, 111, 111, 32, 100, 105,
      115, 112, 108, 97, 121>>

\* Unknown query
M_unknown_query ==
    <<85, 110, 107, 110, 111, 119, 110, 32, 113, 117, 101, 114, 121>>

\*  is not a regular file
M_not_regular ==
    <<32, 105, 115, 32, 110, 111, 116, 32, 97, 32, 114, 101, 103, 117,
      108, 97, 114, 32, 102, 105, 108, 101>>

\* No path given
M_no_path == <<78, 111, 32, 112, 97, 116, 104, 32, 103, 105, 118, 101, 110>>

\* [Errno 2] ENOENT
M_ENOENT ==
    <<91, 69, 114, 114, 110, 111, 32, 50, 93, 32, 69, 78, 79, 69, 78, 84>>

\* : 
M_colon == <<58, 32>>

\* available userspace: 
M_avail ==
    <<97, 118, 97, 105, 108, 97, 98, 108, 101, 32, 117, 115, 101, 114,
      115, 112, 97, 99, 101, 58, 32>>

\* blocksize: 
M_bsize == <<98, 108, 111, 99, 107, 115, 105, 122, 101, 58, 32>>

\* free space: 
M_free == <<102, 114, 101, 101, 32, 115, 112, 97, 99, 101, 58, 32>>

\* fragment size: 
M_frsize ==
    <<102, 114, 97, 103, 109, 101, 110, 116, 32, 115, 105, 122, 101, 58,
      32>>

\* total memory space: 
M_size ==
    <<116, 111, 116, 97, 108, 32, 109, 101, 109, 111, 114, 121, 32, 115,
      112, 97, 99, 101, 58, 32>>

\* firmware version: 
M_fwver ==
    <<102, 105, 114, 109, 119, 97, 114, 101, 32, 118, 101, 114, 115,
      105, 111, 110, 58, 32>>

\* hostname: 
M_hostname == <<104, 111, 115, 116, 110, 97, 109, 101, 58, 32>>

\* hardware release: 
M_hwrelease ==
    <<104, 97, 114, 100, 119, 97, 114, 101, 32, 114, 101, 108, 101, 97,
      115, 101, 58, 32>>

\* machine: 
M_machine == <<109, 97, 99, 104, 105, 110, 101, 58, 32>>

\* system name: 
M_sysname == <<115, 121, 115, 116, 101, 109, 32, 110, 97, 109, 101, 58, 32>>

\* all_mem
Q_all_mem == <<97, 108, 108, 95, 109, 101, 109>>

\* all_sys
Q_all_sys == <<97, 108, 108, 95, 115, 121, 115>>

\* avail
Q_avail == <<97, 118, 97, 105, 108>>

\* bsize
Q_bsize == <<98, 115, 105, 122, 101>>

\* frsize
Q_frsize == <<102, 114, 115, 105, 122, 101>>

\* size
Q_size == <<115, 105, 122, 101>>

\* fwver
Q_fwver == <<102, 119, 118, 101, 114>>

\* hwrelease
Q_hwrelease == <<104, 119, 114, 101, 108, 101, 97, 115, 101>>

\* machine
Q_machine == <<109, 97, 99, 104, 105, 110, 101>>

\* sysname
Q_sysname == <<115, 121, 115, 110, 97, 109, 101>>

\* f
D_f == <<102>>

\* g
D_g == <<103>>

\* d
D_d == <<100>>

\* nofile
D_nofile == <<110, 111, 102, 105, 108, 101>>

\* indices of uos.statvfs(path), lines 64-68
F_BSIZE == 0
F_FRSIZE == 1
F_BLOCKS == 2
F_BFREE == 3
F_BAVAIL == 4

\* indices of uos.uname(), lines 55-59
UN_SYSNAME == 0
UN_NODENAME == 1
UN_RELEASE == 2
UN_VERSION == 3
UN_MACHINE == 4

\* what uos.statvfs("/") and uos.uname() return on the modelled device
STATVFS == <<4, 2, 10, 3, 2, 0, 0, 0, 0, 255>>

UNAME ==
    <<<<101, 115, 112, 56, 50, 54, 54>>,
      <<101, 115, 112, 45, 48, 49>>,
      <<50, 46, 50, 46, 48>>,
      <<118, 49, 46, 49, 50>>,
      <<69, 83, 80>>>>

\* the files of the device: f a regular file of one line, g an empty
\* regular file, d and the working directory are directories
DevFiles ==
    [p \in {D_f, D_g, D_d, S_dot} |->
        IF p = D_f
        THEN [dir |-> FALSE, lines |-> <<<<120, 10>>>>, entries |-> <<>>]
        ELSE IF p = D_g
        THEN [dir |-> FALSE, lines |-> <<>>, entries |-> <<>>]
        ELSE IF p = D_d
        THEN [dir |-> TRUE, lines |-> <<>>, entries |-> <<D_f>>]
        ELSE [dir |-> TRUE, lines |-> <<>>, entries |-> <<D_d, D_f, D_g>>]]

Device(inst, n) ==
    [out |-> <<>>, ret |-> <<>>, exc |-> "none", instance |-> inst,
     constructed |-> n]

Running(d) == d.exc = "none"

\* print(text, end=e)
dev_print(d, text, e) ==
    IF Running(d) THEN [d EXCEPT !.out = @ \o text \o e] ELSE d

dev_raise(d, e) == IF Running(d) THEN [d EXCEPT !.exc = e] ELSE d

\* err_msg(err), lines 241-248, for an err that has no message attribute
err_msg(err) == err \o <<10>>

\* serial_print(msg), lines 359-365
serial_print(d, msg) ==
    dev_print(d, DEV_BEG_RES \o msg \o DEV_END_RES, <<10>>)

\* usage(err), lines 378-388, with is_err True
dev_usage(d, err) ==
    dev_raise(serial_print(d, M_Usage \o err \o <<10>>), "SystemExit")

\* lines 349-350: for line in fd: print(line, end="")
RECURSIVE print_lines(_, _, _)
print_lines(d, lines, i) ==
    IF i > Len(lines) THEN d
    ELSE print_lines(dev_print(d, lines[i], <<>>), lines, i + 1)

\* lines 345-354: the try statement of serial_fprint
fprint_body(d, file) ==
    IF file \notin DOMAIN DevFiles
    THEN dev_print(d, err_msg(file \o M_colon \o M_ENOENT), <<>>)
    ELSE IF ~DevFiles[file].dir
    THEN print_lines(d, DevFiles[file].lines, 1)
    ELSE dev_print(d, err_msg(file \o M_colon \o file \o M_not_regular),
                   <<>>)

\* serial_fprint(file), lines 338-356
serial_fprint(d, file) ==
    dev_print(fprint_body(dev_print(d, DEV_BEG_RES, <<>>), file),
              DEV_END_RES, <<>>)

\* lines 224-225: for fn in argv: serial_fprint(fn)
RECURSIVE fprint_from(_, _, _)
fprint_from(d, a, i) ==
    IF i > Len(a) THEN d
    ELSE fprint_from(serial_fprint(d, a[i]), a, i + 1)

\* cat(*argv), lines 213-225
dev_cat(d, a) ==
    IF Len(a) = 0 THEN dev_usage(d, M_no_file) ELSE fprint_from(d, a, 1)

\* du(*argv, max_depth, human_readable), lines 232-238: pass
dev_du(d, a) == d

\* "{}".format(entries) for the list uos.listdir returns
repr_list(entries) ==
    <<91>> \o join(<<44, 32>>,
                   [i \in 1..Len(entries) |-> <<39>> \o entries[i] \o <<39>>])
           \o <<93>>

\* lines 324-333: the output of ls for the arguments from the i-th on
RECURSIVE ls_output(_, _, _)
ls_output(a, i, list_format) ==
    IF i > Len(a) THEN <<>>
    ELSE (IF a[i] \notin DOMAIN DevFiles
          THEN err_msg(a[i] \o M_colon \o M_ENOENT)
          ELSE IF list_format THEN <<>>
          ELSE IF DevFiles[a[i]].dir
          THEN repr_list(DevFiles[a[i]].entries) \o <<10>>
          ELSE a[i] \o <<10>>)
             \o ls_output(a, i + 1, list_format)

\* ls(*argv, human_readable, list_format, rec), lines 315-335
dev_ls(d, a, list_format) ==
    serial_print(d, ls_output(IF Len(a) = 0 THEN <<S_dot>> ELSE a, 1,
                              list_format))

\* is_dir(path), lines 298-312
dev_is_dir(d, path) ==
    serial_print(d,
        IF strip(path) = <<>> THEN err_msg(path \o M_colon \o M_no_path)
        ELSE IF path \notin DOMAIN DevFiles
        THEN err_msg(path \o M_colon \o M_ENOENT)
        ELSE IF DevFiles[path].dir THEN S_TRUE \o <<10>>
        ELSE S_FALSE \o <<10>>)

\* lines 78-91 and 99-105
QUERIES_MEM == <<Q_avail, Q_bsize, S_free, Q_frsize, Q_size>>
QUERIES_SYS == <<Q_fwver, T_hostname, Q_hwrelease, Q_machine, Q_sysname>>
queries == <<S_all, Q_all_mem, Q_all_sys>> \o QUERIES_MEM \o QUERIES_SYS

\* lines 129-143: the line of one memory query
meminfo_line(q) ==
    IF q = Q_avail
    THEN M_avail \o NatStr(STATVFS[F_BAVAIL + 1] * STATVFS[F_BSIZE + 1])
                 \o <<10>>
    ELSE IF q = Q_bsize THEN M_bsize \o NatStr(STATVFS[F_BSIZE + 1]) \o <<10>>
    ELSE IF q = S_free
    THEN M_free \o NatStr(STATVFS[F_BFREE + 1] * STATVFS[F_BSIZE + 1])
                \o <<10>>
    ELSE IF q = Q_frsize
    THEN M_frsize \o NatStr(STATVFS[F_FRSIZE + 1]) \o <<10>>
    ELSE IF q = Q_size
    THEN M_size \o NatStr(STATVFS[F_BLOCKS + 1] * STATVFS[F_FRSIZE + 1])
                \o <<10>>
    ELSE <<>>

\* __meminfo(q), lines 114-145; q is <<>> for None
meminfo(q) ==
    IF q = <<>>
    THEN meminfo_line(Q_avail) \o meminfo_line(Q_bsize)
             \o meminfo_line(S_free) \o meminfo_line(Q_frsize)
             \o meminfo_line(Q_size)
    ELSE meminfo_line(q)

\* lines 194-208: the line of one system query
sysinfo_line(q) ==
    IF q = Q_fwver THEN M_fwver \o UNAME[UN_VERSION + 1] \o <<10>>
    ELSE IF q = T_hostname
    THEN M_hostname \o UNAME[UN_NODENAME + 1] \o <<10>>
    ELSE IF q = Q_hwrelease
    THEN M_hwrelease \o UNAME[UN_RELEASE + 1] \o <<10>>
    ELSE IF q = Q_machine THEN M_machine \o UNAME[UN_MACHINE + 1] \o <<10>>
    ELSE IF q = Q_sysname THEN M_sysname \o UNAME[UN_SYSNAME + 1] \o <<10>>
    ELSE <<>>

\* __sysinfo(q), lines 179-210; q is <<>> for None
sysinfo_sys(q) ==
    IF q = <<>>
    THEN sysinfo_line(Q_fwver) \o sysinfo_line(T_hostname)
             \o sysinfo_line(Q_hwrelease) \o sysinfo_line(Q_machine)
             \o sysinfo_line(Q_sysname)
    ELSE sysinfo_line(q)

\* lines 163-177: the results of a known query
query_results(q) ==
    IF q = S_all THEN sysinfo_sys(<<>>) \o meminfo(<<>>)
    ELSE IF q = Q_all_mem THEN meminfo(<<>>)
    ELSE IF q = Q_all_sys THEN sysinfo_sys(<<>>)
    ELSE (IF Has(QUERIES_MEM, q) THEN meminfo(q) ELSE <<>>)
             \o (IF Has(QUERIES_SYS, q) THEN sysinfo_sys(q) ELSE <<>>)

\* __query(q), lines 147-177; an unknown query ends in usage(), which
\* leaves by sys.exit
dev_query(d, q) ==
    IF ~Has(queries, q) THEN dev_usage(d, M_unknown_query)
    ELSE [d EXCEPT !.ret = query_results(q)]

\* serial_print of the value a call left in d.ret
print_ret(d) == serial_print(d, d.ret)

\* sysinfo.__call__(query), lines 107-112; query is <<>> when the call has
\* no argument, <<k>> when it is query=k
sysinfo_call(d, query) ==
    print_ret(dev_query(d, IF query = <<>> THEN S_all ELSE query[1]))

\* get_instance(*args, **kwargs) of functor, boot.py lines 38-43: the
\* first call constructs the instance with the arguments of the call and
\* returns it; sysinfo.__init__(self), line 93, takes no argument
get_instance(d, query) ==
    IF ~d.instance
    THEN IF query # <<>> THEN dev_raise(d, "TypeError")
         ELSE [d EXCEPT !.instance = TRUE, !.constructed = @ + 1]
    ELSE sysinfo_call(d, query)

(* Inputs *)

MaxDevArgs == 2

DevPaths == {D_f, D_g, D_d, D_nofile}

DevArgs == UNION {[1..n -> DevPaths] : n \in 0..MaxDevArgs}

DevQueries ==
    {<<>>} \cup {<<queries[i]>> : i \in 1..Len(queries)} \cup {<<T_bogus>>}

DevCall(fn, a, query, list_format) ==
    [fn |-> fn, args |-> a, query |-> query, list_format |-> list_format]

InitDevice ==
    /\ dev_pc = "booted"
    /\ instance = FALSE
    /\ constructed = 0
    /\ dev_call = DevCall("none", <<>>, <<>>, FALSE)
    /\ dev_out = <<>>
    /\ dev_exc = "none"
    /\ ExtractIdle
    /\ WriteIdle
    /\ ReadIdle
    /\ ClientIdle
    /\ FnIdle

\* the REPL runs one statement; sys.exit ends the session
Called(d, call) ==
    /\ dev_pc \in {"booted", "called"}
    /\ dev_pc' = IF d.exc = "SystemExit" THEN "exited" ELSE "called"
    /\ dev_call' = call
    /\ dev_out' = d.out
    /\ dev_exc' = d.exc
    /\ instance' = d.instance
    /\ constructed' = d.constructed
    /\ UNCHANGED <<exVars, wrVars, rdVars, cliVars, fnVars>>

DevCat ==
    \E a \in DevArgs :
        Called(dev_cat(Device(instance, constructed), a),
               DevCall("cat", a, <<>>, FALSE))

DevDu ==
    \E a \in DevArgs :
        Called(dev_du(Device(instance, constructed), a),
               DevCall("du", a, <<>>, FALSE))

DevLs ==
    \E a \in DevArgs, list_format \in BOOLEAN :
        Called(dev_ls(Device(instance, constructed), a, list_format),
               DevCall("ls", a, <<>>, list_format))

DevIsDir ==
    \E path \in DevPaths \cup {<<>>, T_blank} :
        Called(dev_is_dir(Device(instance, constructed), path),
               DevCall("is_dir", <<path>>, <<>>, FALSE))

DevSysinfo ==
    \E query \in DevQueries :
        Called(get_instance(Device(instance, constructed), query),
               DevCall("sysinfo", <<>>, query, FALSE))

\* restore(), lines 368-375: the module is removed and the device reset
DevRestore ==
    /\ dev_pc \in {"booted", "called"}
    /\ dev_pc' = "removed"
    /\ dev_call' = DevCall("restore", <<>>, <<>>, FALSE)
    /\ dev_out' = <<>>
    /\ dev_exc' = "none"
    /\ instance' = FALSE
    /\ constructed' = 0
    /\ UNCHANGED <<exVars, wrVars, rdVars, cliVars, fnVars>>

NextDevice ==
    \/ DevCat
    \/ DevDu
    \/ DevLs
    \/ DevIsDir
    \/ DevSysinfo
    \/ DevRestore

SpecDevice == InitDevice /\ [][NextDevice]_vars

----------------------------------------------------------------------------
(* The envelope of a device-side command *)

\* the text t is exactly one envelope: a BEGIN line, a payload without
\* marker lines and an END line, with at most the newline that print adds
OneEnvelope(t) ==
    /\ Cardinality(Occ(t, DEV_BEG_RES)) = 1
    /\ Cardinality(Occ(t, DEV_END_RES)) = 1
    /\ StartsWith(t, DEV_BEG_RES)
    /\ EndsWith(t, DEV_END_RES) \/ EndsWith(t, DEV_END_RES \o <<10>>)

\* the last statement of the REPL called a command the host reads from
ReadBack ==
    /\ dev_pc \in {"called", "exited"}
    /\ dev_call.fn \in {"cat", "du", "ls", "is_dir", "sysinfo"}

\* C23: every call of cat, du, ls, is_dir or sysinfo prints exactly one
\* envelope, BEGIN line, output, END line, and nothing outside it.
C23_OneEnvelopePerCall == ReadBack => OneEnvelope(dev_out)

----------------------------------------------------------------------------
(* The functor that wraps sysinfo *)

\* the last statement called sysinfo with a key of the query set
KeyedCall ==
    /\ dev_pc = "called"
    /\ dev_call.fn = "sysinfo"
    /\ dev_call.query # <<>>
    /\ Has(queries, dev_call.query[1])

\* C27: at most one sysinfo instance is constructed after boot, and every
\* call with a query key, the first one too, is dispatched to it and
\* prints the result of the query in an envelope.
C27_KeyedCallDispatches ==
    /\ constructed <= 1
    /\ KeyedCall =>
           /\ instance
           /\ dev_exc = "none"
           /\ dev_out = DEV_BEG_RES \o query_results(dev_call.query[1])
                            \o DEV_END_RES \o <<10>>

----------------------------------------------------------------------------
(* The statements a command sends *)

IsPrefix(s, t) == Len(s) <= Len(t) /\ s = SubSeq(t, 1, Len(s))

\* the statements that transfer the files srcs from the i-th on, into the
\* directory dest or onto the path dest; a file that does not exist ends
\* the transfers
RECURSIVE TransfersFrom(_, _, _, _)
TransfersFrom(srcs, i, dest, into) ==
    IF i > Len(srcs) \/ srcs[i] \notin DOMAIN Files THEN <<>>
    ELSE TransferOf(Files[srcs[i]],
                    IF into THEN dest \o <<47>> \o basename(srcs[i])
                    ELSE dest)
             \o TransfersFrom(srcs, i + 1, dest, into)

\* the arguments of the last handler without its options, when it is cp;
\* its sources as real paths, each at its first occurrence; its destination
CpArgs == getopt(argv, <<114, 115, 58, 100, 58>>).args
CpSrcs ==
    LET real == [i \in 1..(Len(CpArgs) - 1) |-> realpath(CpArgs[i])]
        idx  == SelectSeq([i \in 1..Len(real) |-> i],
                          LAMBDA i : \A j \in 1..(i - 1) : real[j] # real[i])
    IN  [k \in 1..Len(idx) |-> real[idx[k]]]
CpDest == CpArgs[Len(CpArgs)]
CpProbe == S_is_dir \o CpDest \o S_qclose

\* cp transfers the cli module without asking for the destination
CpDirect == argv = <<P_cli, CLI_MOD>>

\* the sequences of statements the last handler may send, each statement
\* once
Plans ==
    IF cmd = "main"
    THEN {<<PROBE>> \o TransfersFrom(<<P_cli>>, 1, CLI_MOD, FALSE)}
    ELSE IF cmd = "cp" /\ CpDirect
    THEN {TransfersFrom(<<P_cli>>, 1, CLI_MOD, FALSE)}
    ELSE IF cmd = "cp"
    THEN {<<CpProbe>> \o TransfersFrom(CpSrcs, 1, CpDest, TRUE),
          <<CpProbe>> \o TransfersFrom(<<CpSrcs[1]>>, 1, CpDest, FALSE)}
    ELSE {<<>>} \cup {<<t>> : t \in Statements}

\* the read at position i brought an answer that cannot be decoded or,
\* in a command, holds no result
BadAnswer(i) ==
    LET bytes == concat(ops[i].chunks)
    IN  \/ ~ValidUtf8(bytes)
        \/ cmd # "main" /\ extract_results(decode(bytes)).err # "none"

\* nothing but the close of a finally clause follows position i
OnlyCloseAfter(i) == \A j \in (i + 1)..Len(ops) : ops[j].op = "close"

\* C24: no retries: the statements a handler writes are, in order, the
\* first statements of what the command sends with each statement once;
\* it reads at most once; after a failed open, write or read, and after
\* a read whose answer cannot be decoded or holds no result in a cp, it
\* writes and reads nothing more.
C24_NoRetries ==
    ops # <<>> =>
        /\ \E plan \in Plans : IsPrefix(WriteTexts, plan)
        /\ Cardinality({i \in 1..Len(ops) : ops[i].op = "read"}) <= 1
        /\ \A i \in 1..Len(ops) :
               /\ ~ops[i].ok => OnlyCloseAfter(i)
               /\ (ops[i].op = "read" /\ ops[i].ok /\ BadAnswer(i)
                       /\ cmd \in {"main", "cp"})
                      => OnlyCloseAfter(i)

\* a cp whose write of a statement of the transfer failed: only the close
\* of the finally clause follows
C24_Witness ==
    /\ cmd = "cp"
    /\ \E i \in 4..(Len(ops) - 1) :
           /\ ops[i].op = "write" /\ ~ops[i].ok
           /\ ops[i + 1].op = "close"
           /\ Len(ops) = i + 1
    /\ exit_code = 0

----------------------------------------------------------------------------
(* The bracket of a cp *)

\* the positions of the operations named op in the last handler
OpsOf(op) == {i \in 1..Len(ops) : ops[i].op = op}

\* the last handler is a cp that went to the port
CpOpened == cmd = "cp" /\ OpsOf("open") # {}

\* C25: a cp of local sources to the device opens the port once, as its
\* first transport operation, and closes it once, as its last one; the
\* probe, its read and the statements of the files lie between the two,
\* the statements of one file together and before those of the next.
C25_OneBracket ==
    CpOpened =>
        /\ OpsOf("open") = {1}
        /\ OpsOf("close") = {Len(ops)}
        /\ OpsOf("reopen") = {}
        /\ \E plan \in Plans : IsPrefix(WriteTexts, plan)
        /\ ser_conn = "closed"

----------------------------------------------------------------------------
(* The write statement of one line *)

\* s is made of characters that are no backslash, quote, carriage return,
\* newline or tab, and of the pairs backslash-backslash, backslash-n,
\* backslash-r and backslash-quote
RECURSIVE WellEscaped(_)
WellEscaped(s) ==
    IF s = <<>> THEN TRUE
    ELSE IF s[1] = 92
    THEN /\ Len(s) >= 2
         /\ s[2] \in {92, 110, 114, 39}
         /\ WellEscaped(SubSeq(s, 3, Len(s)))
    ELSE s[1] \notin {39, 13, 10, 9} /\ WellEscaped(Tail(s))

\* the statement serial_fwrite sends for the line that was escaped
WriteStatement == S_write \o fn_result \o S_encode

\* C26: the write statement of a line is one single-line statement: the
\* escaped text between its quotes holds no raw carriage return, newline
\* or tab and no quote without an escaping backslash, every backslash is
\* part of a pair backslash-backslash, backslash-n, backslash-r or
\* backslash-quote, and the only CR and LF of the statement are its
\* terminator.
C26_SingleLineStatement ==
    fn_pc = "return" =>
        /\ WellEscaped(fn_result)
        /\ {i \in 1..Len(WriteStatement) : WriteStatement[i] \in {13, 10}}
               = {Len(WriteStatement) - 1, Len(WriteStatement)}

\* a line of a quote, a backslash and a newline has been escaped
C26_Witness ==
    /\ fn_pc = "return"
    /\ fn_arg = <<39, 92, 10>>
    /\ fn_result = <<92, 39, 92, 92, 92, 110>>

----------------------------------------------------------------------------
(* What cp copies *)

\* the last handler is a cp whose probe was answered with a result; the
\* result as cp takes it
CpAnswered ==
    /\ cmd = "cp"
    /\ ~CpDirect
    /\ Len(ops) >= 3
    /\ ops[3].op = "read" /\ ops[3].ok
    /\ ValidUtf8(concat(ops[3].chunks))
    /\ extract_results(Answer).err = "none"

CpResult == strip(extract_results(Answer).results)

\* the statements that follow the probe
CpTransfers == Tail(WriteTexts)

\* C28: when the probe does not answer TRUE, a cp with one distinct
\* source transfers it to the destination path itself, completely
\* unless the file is missing or the transport fails, and a cp with more
\* than one distinct source sends no statement of a transfer and fails
\* with an error.
C28_NotADirectory ==
    (CpAnswered /\ CpResult # S_TRUE) =>
        IF Len(CpSrcs) = 1
        THEN /\ IsPrefix(CpTransfers,
                         TransfersFrom(CpSrcs, 1, CpDest, FALSE))
             /\ (FailedOps = {} /\ CpSrcs[1] \in DOMAIN Files) =>
                    /\ exc.type = "none"
                    /\ CpTransfers = TransferOf(Files[CpSrcs[1]], CpDest)
        ELSE /\ WriteTexts = <<CpProbe>>
             /\ pc \in {"exited", "finalized"}
             /\ exit_code = EXIT_FAILURE

\* a and ./a have been copied onto d, which is no directory, as one file;
\* a and b have been refused
C28_Witness ==
    /\ CpAnswered
    /\ CpResult = S_FALSE
    /\ \/ /\ argv = <<T_a, T_a2, T_dest>>
          /\ exc.type = "none"
          /\ CpTransfers = TransferOf(LinesA, T_dest)
       \/ /\ argv = <<T_a, T_b, T_dest>>
          /\ exit_code = EXIT_FAILURE

\* C29: when the probe answers TRUE, every distinct source, in the order
\* of its first occurrence, is transferred once to the path
\* dest/basename(source); a missing file or a failure of the transport
\* ends the transfers.
C29_IntoDirectory ==
    (CpAnswered /\ CpResult = S_TRUE) =>
        /\ IsPrefix(CpTransfers, TransfersFrom(CpSrcs, 1, CpDest, TRUE))
        /\ FailedOps = {} =>
               /\ CpTransfers = TransfersFrom(CpSrcs, 1, CpDest, TRUE)
               /\ (\A i \in 1..Len(CpSrcs) : CpSrcs[i] \in DOMAIN Files)
                      => exc.type = "none"

\* a and b have been copied into the directory d, a before b
C29_Witness ==
    /\ CpAnswered
    /\ CpResult = S_TRUE
    /\ argv = <<T_a, T_b, T_dest>>
    /\ exc.type = "none"
    /\ CpTransfers = TransferOf(LinesA, T_dest \o <<47>> \o T_a)
                         \o TransferOf(LinesB, T_dest \o <<47>> \o T_b)

----------------------------------------------------------------------------
(* Reads and writes on the open port *)

\* the port is open at the i-th operation of the last handler: the handler
\* has opened it and not closed it since
PortOpenAt(i) ==
    \E j \in 1..(i - 1) :
        /\ ops[j].op = "open" /\ ops[j].ok
        /\ \A k \in (j + 1)..(i - 1) : ops[k].op # "close"

\* the i-th operation is a read that follows the write of a statement
ReadAfterWrite(i) ==
    /\ i > 1
    /\ ops[i - 1].op = "write"
    /\ ops[i - 1].ok

\* C30: every write and every read of a handler, the constructor and the
\* destructor included, is done on the open port, and a read is issued
\* only after the write of the statement it answers has returned with the
\* whole statement written.
C30_SynchronousExchange ==
    \A i \in 1..Len(ops) :
        /\ ops[i].op \in {"write", "read"} => PortOpenAt(i)
        /\ ops[i].op = "read" =>
               /\ ReadAfterWrite(i)
               /\ concat(ops[i - 1].chunks) = encode(ops[i - 1].text)

----------------------------------------------------------------------------
(* Command lines without an exchange *)

\* the last handler was given a command line that asks for help or that
\* cp refuses: help itself, which also answers a name outside the command
\* set and an empty interactive line; a command with the option -h; a cp
\* from local to local or with fewer than two paths
QuietLine ==
    \/ cmd = "help"
    \/ /\ cmd \in {"cat", "cp", "du", "ls", "sysinfo", "free", "restore",
                   "exit"}
       /\ Has(argv, O_h)
    \/ /\ cmd = "cp"
       /\ getopt(argv, <<114, 115, 58, 100, 58>>).ok
       /\ \/ Len(CpArgs) < 2
          \/ /\ ~BadPlace(getopt(argv, <<114, 115, 58, 100, 58>>).opts)
             /\ LastOpt(getopt(argv, <<114, 115, 58, 100, 58>>).opts,
                        O_s, S_local) = S_local
             /\ LastOpt(getopt(argv, <<114, 115, 58, 100, 58>>).opts,
                        O_d, S_serial) = S_local

\* C31: a command line that causes no exchange leaves the port as it is:
\* the handler does no open, write, read or close, prints nothing to
\* stdout and returns without an exception.
C31_NoExchangeNoPort ==
    [][(pc = "ready" /\ QuietLine') =>
           /\ ser_conn' = ser_conn
           /\ ops' = <<>>
           /\ printed' = <<>>
           /\ exc'.type = "none"]_vars

\* a cp from local to local has returned in interactive mode with the
\* port closed and untouched
C31_Witness ==
    /\ pc = "ready"
    /\ interactive
    /\ cmd = "cp"
    /\ argv = <<O_s, S_local, O_d, S_local, T_a, T_dest>>
    /\ QuietLine
    /\ ops = <<>>
    /\ ser_conn = "closed"

----------------------------------------------------------------------------
(* The probe of the constructor *)

\* the text has the line l: l lies between two CR LF or the ends of the text
HasLine(text, l) ==
    \E i \in Occ(text, l) :
        /\ i = 1 \/ (i >= 3 /\ SubSeq(text, i - 2, i - 1) = CRLF)
        /\ \/ i + Len(l) - 1 = Len(text)
           \/ MatchAt(text, CRLF, i + Len(l))

\* the constructor has opened the port and no transport operation failed
Probed == cmd = "main" /\ ops # <<>> /\ FailedOps = {}

\* the bytes read as the answer to the probe
ProbeBytes == concat(ops[3].chunks)

\* the answer to the probe says that the device has no cli module
ModuleMissing ==
    \/ decode(ProbeBytes) = <<>>
    \/ HasLine(decode(ProbeBytes), ENOENT_LINE)

\* the events of the kind op among the transport events of the last handler
EventsOf(op) == {i \in 1..Len(ops) : ops[i].op = op}

\* C32: a constructor whose transport operations all succeed opens the
\* port, writes the probe for the cli module and reads once.  When the
\* answer decodes the port is closed next; when it is empty or has the
\* line ### [Errno 2] ENOENT ### the statements that follow are exactly the transfer of the cli module file
\* to cli_module.py, with no second probe and no second read, and the
\* process ends with exit code 0 before any command is handled; when it
\* is anything else nothing more is written and the program goes on to
\* the command.
C32_ProbeThenTransfer ==
    Probed =>
        /\ Len(ops) >= 3
        /\ ops[1].op = "open"
        /\ ops[2].op = "write" /\ ops[2].text = PROBE
        /\ ops[3].op = "read"
        /\ EventsOf("read") = {3}
        /\ ValidUtf8(ProbeBytes) =>
               IF ModuleMissing
               THEN /\ ops[4].op = "close"
                    /\ WriteTexts = <<PROBE>> \o TransferOf(LinesCli, CLI_MOD)
                    /\ pc \in {"exited", "finalized"}
                    /\ exit_code = EXIT_SUCCESS
                    /\ exc = SystemExit(EXIT_SUCCESS)
               ELSE /\ Len(ops) = 4
                    /\ ops[4].op = "close"
                    /\ pc = "ready"
                    /\ exit_code = -1
                    /\ exc.type = "none"
                    /\ ser_conn = "closed"

\* the device answered the probe with the ENOENT line and the module was
\* transferred
C32_Witness ==
    /\ Probed
    /\ ValidUtf8(ProbeBytes)
    /\ decode(ProbeBytes) = R_enoent
    /\ ModuleMissing
    /\ WriteTexts = <<PROBE>> \o TransferOf(LinesCli, CLI_MOD)
    /\ pc = "exited"
    /\ exit_code = EXIT_SUCCESS

\* the device answered the probe with something else and the program is
\* about to handle the command
C32_WitnessPresent ==
    /\ Probed
    /\ ValidUtf8(ProbeBytes)
    /\ ~ModuleMissing
    /\ pc = "ready"

====
